---- MODULE Spec2Model ----
(***************************************************************************)
(* Incremental point location: the trapezoid map (VerticalDecomposition),  *)
(* its search DAG (VDSearchStructure) and the facade (PointLocation) of    *)
(* notebooks/modules/data_structures/vertical_decomposition.py.            *)
(*                                                                         *)
(* Objects live in two heaps, sequences indexed by object identity:        *)
(*   faces[t]  a VDFace    (trapezoid), live or retired                    *)
(*   nodes[n]  a VDNode    (VDXNode, VDYNode or VDLeaf)                    *)
(* A null reference is None.  A Point is a record with its coordinates and *)
(* an object tag o, so that == (coordinates) and `is` (the whole record)   *)
(* can be told apart.  A VDLineSegment is a segment id (see Seg).           *)
(***************************************************************************)
EXTENDS Integers, Sequences, FiniteSets, TLC

None == 0

\* ---------------------------------------------------------------- bounds
\* number of insert calls explored
MaxInserts == 3

\* number of build_vertical_decomposition calls explored
MaxBuilds == 1

\* longest segment sequence handed to build_vertical_decomposition
MaxBuildLen == 2

\* most PointLocation.clear calls of a behaviour
MaxClears == 1

\* number of elements handed to the DisjointSet
MaxElems == 4

\* most disks inserted into the ComponentTree
MaxDisks == 4

\* largest coordinate of the points of the cycles handed to _split_face
\* the largest number of edges at the vertex whose angular slots are searched
MaxSpokes == 3

SplitGrid == 2

\* ------------------------------------------------------------- geometry
Pt(x, y, o) == [x |-> x, y |-> y, o |-> o]

NoPoint == Pt(0 - 1, 0 - 1, 0)

\* Rectangle handed to PointLocation (the default is (0,0)-(400,400))
bounding_box == [left |-> 0, right |-> 14, lower |-> 0, upper |-> 12]

\* The segments the callers may insert: left endpoint, right endpoint and
\* the DCEL face tagged as lying above ("outer" is the outer face of the
\* facade's own DCEL, any other tag an inner face of it).
Pool == <<
  [left |-> Pt(2, 4, 1),   right |-> Pt(12, 6, 2),  above |-> "f1"],
  [left |-> Pt(2, 4, 1),   right |-> Pt(8, 10, 3),  above |-> "outer"],
  [left |-> Pt(4, 2, 4),   right |-> Pt(10, 2, 5),  above |-> "f2"],
  [left |-> Pt(6, 6, 6),   right |-> Pt(8, 8, 7),   above |-> "f1"],
  [left |-> Pt(8, 10, 3),  right |-> Pt(12, 6, 2),  above |-> "outer"],
  [left |-> Pt(4, 2, 8),   right |-> Pt(12, 6, 9),  above |-> "f3"],
  [left |-> Pt(2, 8, 10),  right |-> Pt(6, 10, 11), above |-> "outer"],
  [left |-> Pt(6, 4, 12),  right |-> Pt(10, 8, 13), above |-> "outer"] >>

PoolIds == 1..Len(Pool)

TopSeg == Len(Pool) + 1

BottomSeg == Len(Pool) + 2

\* Segments that break the general position of the callers' input: each has
\* an endpoint of a pool segment on its supporting line.  The first three
\* pass through that endpoint, the fourth ends before reaching it, and the
\* last two start in the interior of a pool segment.
DegeneratePool == <<
  [left |-> Pt(4, 5, 14),  right |-> Pt(8, 7, 15),  above |-> "outer"],
  [left |-> Pt(6, 9, 16),  right |-> Pt(10, 7, 17), above |-> "outer"],
  [left |-> Pt(2, 5, 18),  right |-> Pt(10, 7, 17), above |-> "outer"],
  [left |-> Pt(2, 2, 19),  right |-> Pt(4, 4, 20),  above |-> "outer"],
  [left |-> Pt(6, 2, 21),  right |-> Pt(8, 3, 22),  above |-> "outer"],
  [left |-> Pt(6, 2, 21),  right |-> Pt(8, 1, 23),  above |-> "outer"] >>

DegenerateIds == (BottomSeg + 1)..(BottomSeg + Len(DegeneratePool))

upper_left == Pt(bounding_box.left, bounding_box.upper, 101)

upper_right == Pt(bounding_box.right, bounding_box.upper, 102)

lower_left == Pt(bounding_box.left, bounding_box.lower, 103)

lower_right == Pt(bounding_box.right, bounding_box.lower, 104)

\* geometry of a segment id
Seg(s) ==
  IF s = TopSeg THEN [left |-> upper_left, right |-> upper_right]
  ELSE IF s = BottomSeg THEN [left |-> lower_left, right |-> lower_right]
  ELSE IF s > BottomSeg
    THEN [left |-> DegeneratePool[s - BottomSeg].left,
          right |-> DegeneratePool[s - BottomSeg].right]
  ELSE [left |-> Pool[s].left, right |-> Pool[s].right]

\* Point.__eq__ : same coordinates
PointEq(p, q) == p.x = q.x /\ p.y = q.y

\* p.horizontal_orientation(q): where p lies relative to the vertical line
\* through q; equal x is resolved by the symbolic shear (lower is left)
HOrient(p, q) ==
  IF p.x < q.x \/ (p.x = q.x /\ p.y < q.y) THEN "LEFT"
  ELSE IF p.x > q.x \/ (p.x = q.x /\ p.y > q.y) THEN "RIGHT"
  ELSE "EQUAL"

Cross(a, b, c) == (b.x - a.x) * (c.y - a.y) - (b.y - a.y) * (c.x - a.x)

\* p.vertical_orientation(segment): side of the supporting line
VOrient(p, s) ==
  LET c == Cross(Seg(s).left, Seg(s).right, p)
  IN IF c > 0 THEN "ABOVE" ELSE IF c < 0 THEN "BELOW" ELSE "ON"

\* sign of s.slope() - t.slope() for non-vertical segments
SlopeCmp(s, t) ==
  LET a == Seg(s)
      b == Seg(t)
  IN (a.right.y - a.left.y) * (b.right.x - b.left.x)
       - (b.right.y - b.left.y) * (a.right.x - a.left.x)

\* ------------------------------------------------------ VDFace (heap F)
UR == 1

UL == 2

LL == 3

LR == 4

Mirror(slot) == CASE slot = UR -> UL [] slot = UL -> UR [] slot = LL -> LR [] OTHER -> LL

\* VDFace.__init__
NewFace(top_ls, bottom_ls, left_point, right_point) ==
  [top_line_segment |-> top_ls, bottom_line_segment |-> bottom_ls,
   left_point |-> left_point, right_point |-> right_point,
   search_leaf |-> None, neighbors |-> <<None, None, None, None>>]

\* mutant of SetNeighbor: the back reference is not stored
SetNeighborNoMirror(F, t, slot, u) == [F EXCEPT ![t].neighbors[slot] = u]

\* the four neighbor setters: store the reference and store the back
\* reference in the mirror slot of the new neighbor
SetNeighbor(F, t, slot, u) ==
  LET F1 == [F EXCEPT ![t].neighbors[slot] = u]
  IN IF u # None THEN [F1 EXCEPT ![u].neighbors[Mirror(slot)] = t] ELSE F1

\* VDFace.neighbors setter, list order [ur, ul, ll, lr]
SetNeighbors(F, t, nb) ==
  SetNeighbor(SetNeighbor(SetNeighbor(SetNeighbor(F, t, UR, nb[1]), t, UL, nb[2]), t, LL, nb[3]), t, LR, nb[4])

\* t.x_neighbor = src.x_neighbor for one of the four slots x
AdoptNeighbor(F, t, slot, src) == SetNeighbor(F, t, slot, F[src].neighbors[slot])

\* list.remove(x): drops the first occurrence
RECURSIVE ListRemove(_, _)
ListRemove(l, x) ==
  IF l = <<>> THEN <<>>
  ELSE IF Head(l) = x THEN Tail(l)
  ELSE <<Head(l)>> \o ListRemove(Tail(l), x)

InList(l, x) == \E i \in 1..Len(l) : l[i] = x

\* filter(None.__ne__, l)
RECURSIVE FilterNone(_)
FilterNone(l) ==
  IF l = <<>> THEN <<>>
  ELSE IF Head(l) = None THEN FilterNone(Tail(l))
  ELSE <<Head(l)>> \o FilterNone(Tail(l))

\* mutant of Walk: the walk always continues in the upper right neighbor
RECURSIVE WalkAlwaysUpper(_, _, _, _, _)
WalkAlwaysUpper(F, seg, last_intersected, intersected_trapezoids, fuel) ==
  IF last_intersected = None
    THEN [err |-> "AttributeError", list |-> intersected_trapezoids]
  ELSE IF fuel = 0
    THEN [err |-> "NoTermination", list |-> intersected_trapezoids]
  ELSE IF HOrient(Seg(seg).right, F[last_intersected].right_point) = "RIGHT"
    THEN WalkAlwaysUpper(F, seg, F[last_intersected].neighbors[UR],
                         Append(intersected_trapezoids, F[last_intersected].neighbors[UR]),
                         fuel - 1)
  ELSE [err |-> "none", list |-> intersected_trapezoids]

\* ------------------------------------------- VerticalDecomposition.update
\* The walk to the right along the segment (lines 159-167): the trapezoids
\* crossed after left_point_face.  Stepping onto a null neighbor raises
\* AttributeError at the next evaluation of the loop condition.
RECURSIVE Walk(_, _, _, _, _)
Walk(F, seg, last_intersected, intersected_trapezoids, fuel) ==
  IF last_intersected = None
    THEN [err |-> "AttributeError", list |-> intersected_trapezoids]
  ELSE IF fuel = 0
    THEN [err |-> "NoTermination", list |-> intersected_trapezoids]
  ELSE IF HOrient(Seg(seg).right, F[last_intersected].right_point) = "RIGHT"
    THEN LET nxt == IF VOrient(F[last_intersected].right_point, seg) = "BELOW"
                      THEN F[last_intersected].neighbors[UR]
                      ELSE F[last_intersected].neighbors[LR]
         IN Walk(F, seg, nxt, Append(intersected_trapezoids, nxt), fuel - 1)
  ELSE [err |-> "none", list |-> intersected_trapezoids]

\* lines 172-173: the trapezoids above and below the segment
UpdateSingleNew(F0, seg, lpf) ==
  [F |-> F0 \o << NewFace(F0[lpf].top_line_segment, seg, Seg(seg).left, Seg(seg).right),
                  NewFace(seg, F0[lpf].bottom_line_segment, Seg(seg).left, Seg(seg).right) >>,
   top |-> Len(F0) + 1, bottom |-> Len(F0) + 2, left |-> None, right |-> None]

\* mutant of UpdateSingleLeft: with a shared left endpoint the left
\* neighbors of the replaced trapezoid are not handed to the two pieces
UpdateSingleLeftNoAdopt(h, seg, lpf) ==
  IF ~PointEq(Seg(seg).left, h.F[lpf].left_point)
    THEN [h EXCEPT
           !.F = SetNeighbors(
                   Append(h.F, NewFace(h.F[lpf].top_line_segment, h.F[lpf].bottom_line_segment,
                                       h.F[lpf].left_point, Seg(seg).left)),
                   Len(h.F) + 1,
                   << h.top, h.F[lpf].neighbors[UL], h.F[lpf].neighbors[LL], h.bottom >>),
           !.left = Len(h.F) + 1]
    ELSE h

\* lines 174-184: the left remainder, or the left neighbors handed over
UpdateSingleLeft(h, seg, lpf) ==
  IF ~PointEq(Seg(seg).left, h.F[lpf].left_point)
    THEN [h EXCEPT
           !.F = SetNeighbors(
                   Append(h.F, NewFace(h.F[lpf].top_line_segment, h.F[lpf].bottom_line_segment,
                                       h.F[lpf].left_point, Seg(seg).left)),
                   Len(h.F) + 1,
                   << h.top, h.F[lpf].neighbors[UL], h.F[lpf].neighbors[LL], h.bottom >>),
           !.left = Len(h.F) + 1]
    ELSE [h EXCEPT !.F = AdoptNeighbor(AdoptNeighbor(h.F, h.top, UL, lpf), h.bottom, LL, lpf)]

\* lines 185-195: the right remainder, or the right neighbors handed over
UpdateSingleRight(h, seg, lpf) ==
  IF ~PointEq(Seg(seg).right, h.F[lpf].right_point)
    THEN [h EXCEPT
           !.F = SetNeighbors(
                   Append(h.F, NewFace(h.F[lpf].top_line_segment, h.F[lpf].bottom_line_segment,
                                       Seg(seg).right, h.F[lpf].right_point)),
                   Len(h.F) + 1,
                   << h.F[lpf].neighbors[UR], h.top, h.bottom, h.F[lpf].neighbors[LR] >>),
           !.right = Len(h.F) + 1]
    ELSE [h EXCEPT !.F = AdoptNeighbor(AdoptNeighbor(h.F, h.top, UR, lpf), h.bottom, LR, lpf)]

\* mutant of UpdateSingleResult: the replaced trapezoid is appended once
\* more instead of being removed
UpdateSingleResultReAppends(h, live, lpf) ==
  [F |-> h.F,
   live |-> live \o << lpf >> \o FilterNone(<< h.left, h.top, h.bottom, h.right >>),
   unvalid |-> << lpf >>,
   new |-> << h.left, h.top, h.bottom, h.right >>,
   err |-> "none"]

\* mutant of UpdateSingleResult: the replaced trapezoid stays in the list
UpdateSingleResultKeepsOld(h, live, lpf) ==
  [F |-> h.F,
   live |-> live \o FilterNone(<< h.left, h.top, h.bottom, h.right >>),
   unvalid |-> << lpf >>,
   new |-> << h.left, h.top, h.bottom, h.right >>,
   err |-> "none"]

\* lines 196-198: the list of live trapezoids and the two returned lists
UpdateSingleResult(h, live, lpf) ==
  [F |-> h.F,
   live |-> ListRemove(live, lpf) \o FilterNone(<< h.left, h.top, h.bottom, h.right >>),
   unvalid |-> << lpf >>,
   new |-> << h.left, h.top, h.bottom, h.right >>,
   err |-> "none"]

\* Simple case (lines 169-198): the segment lies inside left_point_face
UpdateSingle(F0, live, seg, lpf) ==
  UpdateSingleResult(
    UpdateSingleRight(UpdateSingleLeft(UpdateSingleNew(F0, seg, lpf), seg, lpf), seg, lpf),
    live, lpf)

\* lines 208-209: the pieces of the first trapezoid above and below
SplitFirstNew(F0, live, seg, lpf) ==
  [F |-> F0 \o << NewFace(F0[lpf].top_line_segment, seg, Seg(seg).left, F0[lpf].right_point),
                  NewFace(seg, F0[lpf].bottom_line_segment, Seg(seg).left, F0[lpf].right_point) >>,
   live |-> live, left_face |-> None,
   left_face_above |-> Len(F0) + 1, left_face_below |-> Len(F0) + 2, err |-> "none"]

\* mutant of SplitFirstLeft: the piece above the segment is linked to the
\* left remainder through its lower left slot as well
SplitFirstLeftLinksLower(h, seg, lpf) ==
  IF ~PointEq(Seg(seg).left, h.F[lpf].left_point)
    THEN [h EXCEPT !.left_face = lpf,
                   !.F = SetNeighbor(SetNeighbor(SetNeighbor(h.F, h.left_face_above, LL, lpf),
                                                 h.left_face_above, UL, lpf),
                                     h.left_face_below, LL, lpf)]
    ELSE [h EXCEPT !.live = ListRemove(h.live, lpf),
                   !.F = AdoptNeighbor(AdoptNeighbor(h.F, h.left_face_above, UL, lpf),
                                       h.left_face_below, LL, lpf)]

\* mutant of SplitFirstLeft: with a shared left endpoint the first trapezoid
\* stays in the list of live trapezoids
SplitFirstLeftKeepsLive(h, seg, lpf) ==
  IF ~PointEq(Seg(seg).left, h.F[lpf].left_point)
    THEN [h EXCEPT !.left_face = lpf,
                   !.F = SetNeighbor(SetNeighbor(h.F, h.left_face_above, UL, lpf),
                                     h.left_face_below, LL, lpf)]
    ELSE [h EXCEPT !.F = AdoptNeighbor(AdoptNeighbor(h.F, h.left_face_above, UL, lpf),
                                       h.left_face_below, LL, lpf)]

\* lines 210-222: the first trapezoid is kept as left remainder or removed
SplitFirstLeft(h, seg, lpf) ==
  IF ~PointEq(Seg(seg).left, h.F[lpf].left_point)
    THEN [h EXCEPT !.left_face = lpf,
                   !.F = SetNeighbor(SetNeighbor(h.F, h.left_face_above, UL, lpf),
                                     h.left_face_below, LL, lpf)]
    ELSE [h EXCEPT !.live = ListRemove(h.live, lpf),
                   !.F = AdoptNeighbor(AdoptNeighbor(h.F, h.left_face_above, UL, lpf),
                                       h.left_face_below, LL, lpf)]

\* lines 224-231: the outermost right neighbor, then the first trapezoid
\* is shrunk to the left endpoint
SplitFirstRight(h, seg, lpf, upper_right_nb, lower_right_nb) ==
  IF VOrient(h.F[lpf].right_point, seg) = "ABOVE"
    THEN [h EXCEPT !.F = [SetNeighbor(h.F, h.left_face_above, UR, upper_right_nb)
                            EXCEPT ![lpf].right_point = Seg(seg).left]]
  ELSE IF VOrient(h.F[lpf].right_point, seg) = "BELOW"
    THEN [h EXCEPT !.F = [SetNeighbor(h.F, h.left_face_below, LR, lower_right_nb)
                            EXCEPT ![lpf].right_point = Seg(seg).left]]
  ELSE [h EXCEPT !.err = "RuntimeError"]

\* Partition of the first crossed trapezoid (lines 204-231); its right
\* neighbors are read before any change
SplitFirst(F0, live, seg, lpf) ==
  SplitFirstRight(SplitFirstLeft(SplitFirstNew(F0, live, seg, lpf), seg, lpf), seg, lpf,
                  F0[lpf].neighbors[UR], F0[lpf].neighbors[LR])

\* lines 235-236: the pieces of the last trapezoid above and below
SplitLastNew(F0, live, seg, rpf) ==
  [F |-> F0 \o << NewFace(F0[rpf].top_line_segment, seg, F0[rpf].left_point, Seg(seg).right),
                  NewFace(seg, F0[rpf].bottom_line_segment, F0[rpf].left_point, Seg(seg).right) >>,
   live |-> live, right_face |-> None,
   right_face_above |-> Len(F0) + 1, right_face_below |-> Len(F0) + 2]

\* mutant of SplitLastRight: with a shared right endpoint the right
\* neighbors of the removed trapezoid are not handed to the two pieces
SplitLastRightNoAdopt(h, seg, rpf) ==
  IF ~PointEq(Seg(seg).right, h.F[rpf].right_point)
    THEN [h EXCEPT !.right_face = rpf,
                   !.F = [SetNeighbor(SetNeighbor(h.F, h.right_face_above, UR, rpf),
                                      h.right_face_below, LR, rpf)
                            EXCEPT ![rpf].left_point = Seg(seg).right]]
    ELSE [h EXCEPT !.live = ListRemove(h.live, rpf)]

\* lines 237-250: the last trapezoid is kept as right remainder or removed
SplitLastRight(h, seg, rpf) ==
  IF ~PointEq(Seg(seg).right, h.F[rpf].right_point)
    THEN [h EXCEPT !.right_face = rpf,
                   !.F = [SetNeighbor(SetNeighbor(h.F, h.right_face_above, UR, rpf),
                                      h.right_face_below, LR, rpf)
                            EXCEPT ![rpf].left_point = Seg(seg).right]]
    ELSE [h EXCEPT !.live = ListRemove(h.live, rpf),
                   !.F = AdoptNeighbor(AdoptNeighbor(h.F, h.right_face_above, UR, rpf),
                                       h.right_face_below, LR, rpf)]

\* Partition of the last crossed trapezoid (lines 235-250)
SplitLast(F0, live, seg, rpf) == SplitLastRight(SplitLastNew(F0, live, seg, rpf), seg, rpf)

RECURSIVE MergeLoop(_, _, _)
RECURSIVE MergeLoopOnAsBelow(_, _, _)
\* mutant of MergeBelow: the crossed trapezoid keeps its bottom segment
MergeBelowNoShrink(m, seg, t) ==
  [m EXCEPT
    !.last_face_above = t,
    !.F = SetNeighbor(
            [(IF VOrient(m.F[t].right_point, seg) = "BELOW"
                THEN AdoptNeighbor(AdoptNeighbor(m.F, m.last_face_below, LR, t),
                                   m.last_face_below, UR, t)
                ELSE m.F)
               EXCEPT ![m.last_face_below].right_point = m.F[t].right_point],
            t, LL, m.last_face_above)]

\* lines 259-268: t starts above the segment, the trapezoids below merge
MergeBelow(m, seg, t) ==
  [m EXCEPT
    !.last_face_above = t,
    !.F = SetNeighbor(
            [(IF VOrient(m.F[t].right_point, seg) = "BELOW"
                THEN AdoptNeighbor(AdoptNeighbor(m.F, m.last_face_below, LR, t),
                                   m.last_face_below, UR, t)
                ELSE m.F)
               EXCEPT ![m.last_face_below].right_point = m.F[t].right_point,
                      ![t].bottom_line_segment = seg],
            t, LL, m.last_face_above)]

\* mutant of MergeAbove: the merged trapezoid above keeps its right point
MergeAboveKeepsRightPoint(m, seg, t) ==
  [m EXCEPT
    !.last_face_below = t,
    !.F = SetNeighbor(
            [(IF VOrient(m.F[t].right_point, seg) = "ABOVE"
                THEN AdoptNeighbor(AdoptNeighbor(m.F, m.last_face_above, LR, t),
                                   m.last_face_above, UR, t)
                ELSE m.F)
               EXCEPT ![t].top_line_segment = seg],
            t, UL, m.last_face_below)]

\* lines 272-281: t starts below the segment, the trapezoids above merge
MergeAbove(m, seg, t) ==
  [m EXCEPT
    !.last_face_below = t,
    !.F = SetNeighbor(
            [(IF VOrient(m.F[t].right_point, seg) = "ABOVE"
                THEN AdoptNeighbor(AdoptNeighbor(m.F, m.last_face_above, LR, t),
                                   m.last_face_above, UR, t)
                ELSE m.F)
               EXCEPT ![m.last_face_above].right_point = m.F[t].right_point,
                      ![t].top_line_segment = seg],
            t, UL, m.last_face_below)]

\* mutant of MergeLoop: a left point on the segment counts as one below it
MergeLoopOnAsBelow(m, seg, rest) ==
  IF rest = <<>> \/ m.err # "none" THEN m
  ELSE IF VOrient(m.F[Head(rest)].left_point, seg) = "ABOVE"
    THEN MergeLoopOnAsBelow(MergeBelow(m, seg, Head(rest)), seg, Tail(rest))
  ELSE MergeLoopOnAsBelow(MergeAbove(m, seg, Head(rest)), seg, Tail(rest))

\* Merge loop over the trapezoids strictly between the first and the last
\* one (lines 253-286); m carries F, last_face_above, last_face_below, err
MergeLoop(m, seg, rest) ==
  IF rest = <<>> \/ m.err # "none" THEN m
  ELSE IF VOrient(m.F[Head(rest)].left_point, seg) = "ABOVE"
    THEN MergeLoop(MergeBelow(m, seg, Head(rest)), seg, Tail(rest))
  ELSE IF VOrient(m.F[Head(rest)].left_point, seg) = "BELOW"
    THEN MergeLoop(MergeAbove(m, seg, Head(rest)), seg, Tail(rest))
  ELSE [m EXCEPT !.err = "RuntimeError"]

\* Merge with the already split last trapezoid (lines 291-314)
MergeLast(m, seg, right_face_above, right_face_below, upper_left_nb, lower_left_nb) ==
  IF m.err # "none" THEN [F |-> m.F, kept_face |-> None, err |-> m.err]
  ELSE IF VOrient(m.F[right_face_above].left_point, seg) = "ABOVE" THEN
    [F |-> SetNeighbor(
             SetNeighbor(
               SetNeighbor(
                 AdoptNeighbor([m.F EXCEPT ![m.last_face_below].right_point = Seg(seg).right],
                               m.last_face_below, LR, right_face_below),
                 m.last_face_below, UR, None),
               m.last_face_above, LR, right_face_above),
             right_face_above, UL, upper_left_nb),
     kept_face |-> right_face_above, err |-> "none"]
  ELSE IF VOrient(m.F[right_face_above].left_point, seg) = "BELOW" THEN
    [F |-> SetNeighbor(
             SetNeighbor(
               AdoptNeighbor(
                 SetNeighbor([m.F EXCEPT ![m.last_face_above].right_point = Seg(seg).right],
                             m.last_face_above, LR, None),
                 m.last_face_above, UR, right_face_above),
               m.last_face_below, UR, right_face_below),
             right_face_below, LL, lower_left_nb),
     kept_face |-> right_face_below, err |-> "none"]
  ELSE [F |-> m.F, kept_face |-> None, err |-> "RuntimeError"]

\* list.pop() and the list without its last element
Last(l) == l[Len(l)]

Front(l) == SubSeq(l, 1, Len(l) - 1)

\* mutant of UpdateMultiResult: the shrunk trapezoids between the first and
\* the last crossed one are returned in the second list as well
UpdateMultiResultListsInner(lpf, walked, sf, sl, fin) ==
  IF fin.err # "none"
    THEN [F |-> fin.F, live |-> sl.live, unvalid |-> <<>>, new |-> <<>>, err |-> fin.err]
    ELSE [F |-> fin.F,
          live |-> sl.live \o << sf.left_face_above, sf.left_face_below, fin.kept_face >>,
          unvalid |-> << lpf >> \o Front(walked) \o << Last(walked) >>,
          new |-> << sf.left_face, sf.left_face_above, sf.left_face_below >>
                    \o Front(walked) \o << fin.kept_face, sl.right_face >>,
          err |-> "none"]

\* line 318-319: the list of live trapezoids and the two returned lists
UpdateMultiResult(lpf, walked, sf, sl, fin) ==
  IF fin.err # "none"
    THEN [F |-> fin.F, live |-> sl.live, unvalid |-> <<>>, new |-> <<>>, err |-> fin.err]
    ELSE [F |-> fin.F,
          live |-> sl.live \o << sf.left_face_above, sf.left_face_below, fin.kept_face >>,
          unvalid |-> << lpf >> \o Front(walked) \o << Last(walked) >>,
          new |-> << sf.left_face, sf.left_face_above, sf.left_face_below,
                     fin.kept_face, sl.right_face >>,
          err |-> "none"]

\* lines 252-316 after both ends have been split
UpdateMultiMerge(seg, lpf, walked, upper_left_nb, lower_left_nb, sf, sl) ==
  UpdateMultiResult(lpf, walked, sf, sl,
    MergeLast(MergeLoop([F |-> sl.F, last_face_above |-> sf.left_face_above,
                         last_face_below |-> sf.left_face_below, err |-> "none"],
                        seg, Front(walked)),
              seg, sl.right_face_above, sl.right_face_below, upper_left_nb, lower_left_nb))

\* lines 234-319 after the first trapezoid has been split
UpdateMultiLast(seg, lpf, walked, upper_left_nb, lower_left_nb, sf) ==
  IF sf.err # "none"
    THEN [F |-> sf.F, live |-> sf.live, unvalid |-> <<>>, new |-> <<>>, err |-> sf.err]
    ELSE UpdateMultiMerge(seg, lpf, walked, upper_left_nb, lower_left_nb, sf,
                          SplitLast(sf.F, sf.live, seg, Last(walked)))

\* Complicated case (lines 200-319): the segment crosses two or more
\* trapezoids; the left neighbors of the last one are read before any change
UpdateMulti(F0, live, seg, lpf, walked) ==
  UpdateMultiLast(seg, lpf, walked,
                  F0[Last(walked)].neighbors[UL], F0[Last(walked)].neighbors[LL],
                  SplitFirst(F0, live, seg, lpf))

\* lines 169-319: the two cases, once the crossed trapezoids are known
VDUpdateWalked(F0, live, seg, lpf, w) ==
  IF w.err # "none"
    THEN [F |-> F0, live |-> live, unvalid |-> <<>>, new |-> <<>>, err |-> w.err]
  ELSE IF w.list = <<>> THEN UpdateSingle(F0, live, seg, lpf)
  ELSE UpdateMulti(F0, live, seg, lpf, w.list)

\* VerticalDecomposition.update(line_segment, left_point_face)
VDUpdate(F0, live, seg, lpf) ==
  VDUpdateWalked(F0, live, seg, lpf, Walk(F0, seg, lpf, <<>>, Len(F0) + 1))

\* ------------------------------------------------------ VDNode (heap N)
\* VDXNode.__init__, VDYNode.__init__, VDLeaf.__init__ (the back reference
\* face.search_leaf is stored by MakeLeafs)
XNode(point) ==
  [kind |-> "X", left |-> None, right |-> None, parents |-> <<>>,
   point |-> point, line_segment |-> None, face |-> None]

YNode(seg) ==
  [kind |-> "Y", left |-> None, right |-> None, parents |-> <<>>,
   point |-> NoPoint, line_segment |-> seg, face |-> None]

Leaf(face) ==
  [kind |-> "L", left |-> None, right |-> None, parents |-> <<>>,
   point |-> NoPoint, line_segment |-> None, face |-> face]

\* VDNode.parent setter: append unless null or already listed
SetParent(N, c, parent) ==
  IF parent = None \/ InList(N[c].parents, parent) THEN N
  ELSE [N EXCEPT ![c].parents = Append(@, parent)]

\* VDXNode.left / VDYNode.lower setter
SetLeft(N, n, c) ==
  LET N1 == [N EXCEPT ![n].left = c]
  IN IF c # None THEN SetParent(N1, c, n) ELSE N1

\* VDXNode.right / VDYNode.upper setter
SetRight(N, n, c) ==
  LET N1 == [N EXCEPT ![n].right = c]
  IN IF c # None THEN SetParent(N1, c, n) ELSE N1

\* the loop of VDNode.replace_with over the parents
RECURSIVE ReplaceInParents(_, _, _, _)
ReplaceInParents(N, ps, old, new) ==
  IF ps = <<>> THEN [N |-> N, err |-> "none"]
  ELSE LET parent == Head(ps)
       IN IF N[parent].left = old
            THEN ReplaceInParents([N EXCEPT ![parent].left = new], Tail(ps), old, new)
          ELSE IF N[parent].right = old
            THEN ReplaceInParents([N EXCEPT ![parent].right = new], Tail(ps), old, new)
          ELSE [N |-> N, err |-> "Exception"]

\* mutant of ReplaceWith: the parent list is not handed to the new node
ReplaceWithKeepsParents(N, old, new) ==
  IF N[old].parents = <<>> THEN [N |-> N, ok |-> FALSE, err |-> "none"]
  ELSE LET r == ReplaceInParents(N, N[old].parents, old, new)
       IN IF r.err # "none" THEN [N |-> r.N, ok |-> FALSE, err |-> r.err]
          ELSE [N |-> r.N, ok |-> TRUE, err |-> "none"]

\* mutant of ReplaceWith: the replaced node keeps its parent list
ReplaceWithOldKeepsParents(N, old, new) ==
  IF N[old].parents = <<>> THEN [N |-> N, ok |-> FALSE, err |-> "none"]
  ELSE LET r == ReplaceInParents(N, N[old].parents, old, new)
       IN IF r.err # "none" THEN [N |-> r.N, ok |-> FALSE, err |-> r.err]
          ELSE [N |-> [r.N EXCEPT ![new].parents = r.N[old].parents],
                ok |-> TRUE, err |-> "none"]

\* VDNode.replace_with(new_node)
ReplaceWith(N, old, new) ==
  IF N[old].parents = <<>> THEN [N |-> N, ok |-> FALSE, err |-> "none"]
  ELSE LET r == ReplaceInParents(N, N[old].parents, old, new)
       IN IF r.err # "none" THEN [N |-> r.N, ok |-> FALSE, err |-> r.err]
          ELSE [N |-> [r.N EXCEPT ![new].parents = r.N[old].parents,
                                  ![old].parents = <<>>],
                ok |-> TRUE, err |-> "none"]

\* mutant of YNodeSide: with the point on the line the slopes are compared
\* the other way round
YNodeSideSlopeSwapped(p, probe, line_segment) ==
  IF VOrient(p, line_segment) = "ABOVE"
       \/ (VOrient(p, line_segment) = "ON"
           /\ (probe = None \/ SlopeCmp(probe, line_segment) < 0))
    THEN "upper"
  ELSE IF VOrient(p, line_segment) = "BELOW"
       \/ (VOrient(p, line_segment) = "ON" /\ SlopeCmp(probe, line_segment) > 0)
    THEN "lower"
  ELSE "AttributeError"

\* mutant of YNodeSide: a plain query for a point on the line continues in
\* the lower child
YNodeSideOnLineLower(p, probe, line_segment) ==
  IF VOrient(p, line_segment) = "ABOVE"
       \/ (VOrient(p, line_segment) = "ON"
           /\ probe # None /\ SlopeCmp(probe, line_segment) > 0)
    THEN "upper"
  ELSE IF VOrient(p, line_segment) = "BELOW"
       \/ (VOrient(p, line_segment) = "ON"
           /\ (probe = None \/ SlopeCmp(probe, line_segment) < 0))
    THEN "lower"
  ELSE "AttributeError"

\* mutant of YNodeSide: with the point on the line a probe of equal slope
\* continues in the upper child
YNodeSideEqualUpper(p, probe, line_segment) ==
  IF VOrient(p, line_segment) = "ABOVE"
       \/ (VOrient(p, line_segment) = "ON"
           /\ (probe = None \/ SlopeCmp(probe, line_segment) >= 0))
    THEN "upper"
  ELSE "lower"

\* VDYNode.search (lines 474-483): the child the search continues in; with
\* the point on the node's line the slope of the inserted segment decides
YNodeSide(p, probe, line_segment) ==
  IF VOrient(p, line_segment) = "ABOVE"
       \/ (VOrient(p, line_segment) = "ON"
           /\ (probe = None \/ SlopeCmp(probe, line_segment) > 0))
    THEN "upper"
  ELSE IF VOrient(p, line_segment) = "BELOW"
       \/ (VOrient(p, line_segment) = "ON" /\ SlopeCmp(probe, line_segment) < 0)
    THEN "lower"
  ELSE "AttributeError"

\* mutant of XNodeSide: a point that coincides with the node's point
\* continues in the left child
XNodeSideEqualLeft(p, point) ==
  IF HOrient(p, point) # "RIGHT" THEN "left" ELSE "right"

\* VDXNode.search (lines 438-442): the child the search continues in
XNodeSide(p, point) ==
  IF HOrient(p, point) = "LEFT" THEN "left" ELSE "right"

\* VDXNode.search, VDYNode.search, VDLeaf.search; probe is the segment being
\* inserted, None for a plain query
RECURSIVE Search(_, _, _, _, _)
Search(N, n, p, probe, fuel) ==
  IF n = None THEN [err |-> "AttributeError", face |-> None]
  ELSE IF fuel = 0 THEN [err |-> "NoTermination", face |-> None]
  ELSE IF N[n].kind = "L" THEN [err |-> "none", face |-> N[n].face]
  ELSE IF N[n].kind = "X" THEN
    IF XNodeSide(p, N[n].point) = "left"
      THEN Search(N, N[n].left, p, probe, fuel - 1)
      ELSE Search(N, N[n].right, p, probe, fuel - 1)
  ELSE IF YNodeSide(p, probe, N[n].line_segment) = "upper"
    THEN Search(N, N[n].right, p, probe, fuel - 1)
  ELSE IF YNodeSide(p, probe, N[n].line_segment) = "lower"
    THEN Search(N, N[n].left, p, probe, fuel - 1)
  ELSE [err |-> "AttributeError", face |-> None]

\* mutant of MakeLeafs: VDLeaf does not store face.search_leaf
RECURSIVE MakeLeafsNoBackRef(_, _)
MakeLeafsNoBackRef(h, ts) ==
  IF ts = <<>> THEN h
  ELSE LET t == Head(ts)
       IN IF t = None
            THEN MakeLeafsNoBackRef([h EXCEPT !.leafs = Append(@, None)], Tail(ts))
            ELSE MakeLeafsNoBackRef([N |-> Append(h.N, Leaf(t)), F |-> h.F,
                                     leafs |-> Append(h.leafs, Len(h.N) + 1)], Tail(ts))

\* new_leafs = [VDLeaf(t) if t is not None else None for t in new_trapezoids]
\* (line 95); h carries N, F and the list built so far
RECURSIVE MakeLeafs(_, _)
MakeLeafs(h, ts) ==
  IF ts = <<>> THEN h
  ELSE LET t == Head(ts)
       IN IF t = None
            THEN MakeLeafs([h EXCEPT !.leafs = Append(@, None)], Tail(ts))
            ELSE LET n == Len(h.N) + 1
                 IN MakeLeafs([N |-> Append(h.N, Leaf(t)),
                               F |-> [h.F EXCEPT ![t].search_leaf = n],
                               leafs |-> Append(h.leafs, n)], Tail(ts))

\* Python indexing l[i] with 0-based and negative indices
PyAt(l, i) == IF i < 0 THEN l[Len(l) + i + 1] ELSE l[i + 1]

\* ------------------------------------------------ VDSearchStructure.update
\* The small tree that replaces the leaf of the left endpoint (lines
\* 542-549) or, with both x-nodes, the only leaf (lines 518-530):
\* a y-node over new_leafs[1], new_leafs[2], optionally under x-nodes
LeftTree(N0, seg, new_leafs) ==
  LET y == Len(N0) + 1
      N1 == SetLeft(SetRight(Append(N0, YNode(seg)), y, PyAt(new_leafs, 1)), y, PyAt(new_leafs, 2))
  IN [N |-> N1, tree |-> y]

\* mutant of WrapRight: the x-node splits at the left endpoint
WrapRightAtLeft(h, seg, leaf) ==
  IF leaf = None THEN h
  ELSE LET x == Len(h.N) + 1
       IN [N |-> SetRight(SetLeft(Append(h.N, XNode(Seg(seg).left)), x, h.tree), x, leaf),
           tree |-> x]

\* mutant of WrapRight: the x-node at the right endpoint is its own right
\* child
WrapRightSelfChild(h, seg, leaf) ==
  IF leaf = None THEN h
  ELSE LET x == Len(h.N) + 1
       IN [N |-> SetRight(SetLeft(Append(h.N, XNode(Seg(seg).right)), x, h.tree), x, x),
           tree |-> x]

WrapRight(h, seg, leaf) ==
  IF leaf = None THEN h
  ELSE LET x == Len(h.N) + 1
       IN [N |-> SetRight(SetLeft(Append(h.N, XNode(Seg(seg).right)), x, h.tree), x, leaf),
           tree |-> x]

\* mutant of WrapLeft: the x-node at the left endpoint gets no left child
WrapLeftNoLeaf(h, seg, leaf) ==
  IF leaf = None THEN h
  ELSE LET x == Len(h.N) + 1
       IN [N |-> SetRight(Append(h.N, XNode(Seg(seg).left)), x, h.tree),
           tree |-> x]

WrapLeft(h, seg, leaf) ==
  IF leaf = None THEN h
  ELSE LET x == Len(h.N) + 1
       IN [N |-> SetRight(SetLeft(Append(h.N, XNode(Seg(seg).left)), x, leaf), x, h.tree),
           tree |-> x]

\* lines 532-535: replace the leaf, or the root
SSUpdateSingleReplace(root, unvalid_leafs, t, r) ==
  [N |-> r.N, root |-> IF r.ok \/ r.err # "none" THEN root ELSE t.tree, err |-> r.err]

SSUpdateSingleTree(root, unvalid_leafs, t) ==
  SSUpdateSingleReplace(root, unvalid_leafs, t, ReplaceWith(t.N, PyAt(unvalid_leafs, 0), t.tree))

\* Simple case (lines 515-535)
SSUpdateSingle(N0, root, seg, unvalid_leafs, new_leafs) ==
  SSUpdateSingleTree(root, unvalid_leafs,
    WrapLeft(WrapRight(LeftTree(N0, seg, new_leafs), seg, PyAt(new_leafs, 3)),
             seg, PyAt(new_leafs, 0)))

RECURSIVE InnerLoop(_, _, _, _)
\* One round of the loop (lines 569-589), the leaf already replaced by tree
InnerStep(c, seg, unvalid_leafs, i, leaf, tree, r, vo) ==
  IF r.err # "none" THEN [c EXCEPT !.N = r.N, !.err = r.err]
  ELSE IF vo = "ABOVE" THEN
    LET flip == c.other_leaf_orientation = "ABOVE"
        opp == IF flip THEN PyAt(unvalid_leafs, i - 1) ELSE c.opposite_leaf
    IN InnerLoop([c EXCEPT !.N = SetLeft(SetRight(r.N, tree, leaf), tree, opp),
                           !.opposite_leaf = opp,
                           !.other_leaf_orientation = IF flip THEN "BELOW" ELSE @],
                 seg, unvalid_leafs, i + 1)
  ELSE IF vo = "BELOW" THEN
    LET flip == c.other_leaf_orientation = "BELOW"
        opp == IF flip THEN PyAt(unvalid_leafs, i - 1) ELSE c.opposite_leaf
    IN InnerLoop([c EXCEPT !.N = SetLeft(SetRight(r.N, tree, opp), tree, leaf),
                           !.opposite_leaf = opp,
                           !.other_leaf_orientation = IF flip THEN "ABOVE" ELSE @],
                 seg, unvalid_leafs, i + 1)
  ELSE [c EXCEPT !.N = r.N, !.err = "RuntimeError"]

\* The loop over the inner unvalid leafs (lines 567-589); c carries N, F,
\* opposite_leaf, other_leaf_orientation, err
InnerLoop(c, seg, unvalid_leafs, i) ==
  IF i >= Len(unvalid_leafs) \/ c.err # "none" THEN c
  ELSE InnerStep(c, seg, unvalid_leafs, i, PyAt(unvalid_leafs, i), Len(c.N) + 1,
                 ReplaceWith(Append(c.N, YNode(seg)), PyAt(unvalid_leafs, i), Len(c.N) + 1),
                 VOrient(c.F[c.N[PyAt(unvalid_leafs, i)].face].left_point, seg))

\* Lines 591-596: opposite_leaf is maintained one more time
InnerLast(F, seg, inner, new_leafs, c1) ==
  IF c1.err # "none" THEN [N |-> c1.N, opposite_leaf |-> None, err |-> c1.err]
  ELSE
    LET vk == VOrient(F[c1.N[PyAt(new_leafs, 0 - 2)].face].left_point, seg)
    IN [N |-> c1.N,
        opposite_leaf |->
          IF vk = "ABOVE" /\ c1.other_leaf_orientation = "ABOVE" THEN PyAt(inner, 0 - 1)
          ELSE IF vk = "BELOW" /\ c1.other_leaf_orientation = "BELOW" THEN PyAt(inner, 0 - 1)
          ELSE c1.opposite_leaf,
        err |-> "none"]

\* Lines 557-589: opposite_leaf is initialised and the loop runs
InnerFirst(N0, F, seg, inner, new_leafs, v0) ==
  InnerLast(F, seg, inner, new_leafs,
    InnerLoop([N |-> N0, F |-> F,
               opposite_leaf |-> IF v0 = "ABOVE" THEN PyAt(new_leafs, 2) ELSE PyAt(new_leafs, 1),
               other_leaf_orientation |-> IF v0 = "ABOVE" THEN "BELOW" ELSE "ABOVE",
               err |-> IF v0 = "ON" THEN "RuntimeError" ELSE "none"],
              seg, inner, 0))

\* Lines 555-596: opposite_leaf after the inner leafs have been replaced
Inner(N0, F, seg, inner, new_leafs) ==
  IF inner = <<>> THEN [N |-> N0, opposite_leaf |-> None, err |-> "none"]
  ELSE InnerFirst(N0, F, seg, inner, new_leafs,
                  VOrient(F[N0[PyAt(inner, 0)].face].left_point, seg))

\* lines 614-618: the x-node of the right endpoint
RightTreeX(h, seg, new_leafs) ==
  IF PyAt(new_leafs, 0 - 1) = None \/ h.err # "none" THEN h
  ELSE [h EXCEPT !.N = SetLeft(SetRight(Append(h.N, XNode(Seg(seg).right)),
                                        Len(h.N) + 1, PyAt(new_leafs, 0 - 1)),
                               Len(h.N) + 1, h.tree),
                 !.tree = Len(h.N) + 1]

\* lines 599-613: the y-node over the kept piece and the opposite leaf
RightTreeY(N1, F, seg, y, kept, new_leafs, opposite_leaf) ==
  IF F[N1[kept].face].bottom_line_segment = seg
    THEN [N |-> SetLeft(SetRight(N1, y, kept), y,
                        IF opposite_leaf # None THEN opposite_leaf ELSE PyAt(new_leafs, 2)),
          tree |-> y, err |-> "none"]
  ELSE IF F[N1[kept].face].top_line_segment = seg
    THEN [N |-> SetRight(SetLeft(N1, y, kept), y,
                         IF opposite_leaf # None THEN opposite_leaf ELSE PyAt(new_leafs, 1)),
          tree |-> y, err |-> "none"]
  ELSE [N |-> N1, tree |-> y, err |-> "RuntimeError"]

\* The tree that replaces the leaf of the right endpoint (lines 599-618)
RightTree(N0, F, seg, new_leafs, opposite_leaf) ==
  RightTreeX(RightTreeY(Append(N0, YNode(seg)), F, seg, Len(N0) + 1,
                        PyAt(new_leafs, 0 - 2), new_leafs, opposite_leaf),
             seg, new_leafs)

\* line 620: the leaf of the right endpoint is replaced by its tree
SSUpdateMultiRight(root, unvalid_leafs, t2) ==
  IF t2.err # "none" THEN [N |-> t2.N, root |-> root, err |-> t2.err]
  ELSE LET r2 == ReplaceWith(t2.N, PyAt(unvalid_leafs, 0 - 1), t2.tree)
       IN [N |-> r2.N, root |-> root, err |-> r2.err]

\* lines 598-620 after the inner leafs have been replaced
SSUpdateMultiInner(F, root, seg, unvalid_leafs, new_leafs, c) ==
  IF c.err # "none" THEN [N |-> c.N, root |-> root, err |-> c.err]
  ELSE SSUpdateMultiRight(root, unvalid_leafs,
                          RightTree(c.N, F, seg, new_leafs, c.opposite_leaf))

\* lines 553-620 after the leaf of the left endpoint has been replaced
SSUpdateMultiLeft(F, root, seg, unvalid_leafs, new_leafs, r1) ==
  IF r1.err # "none" THEN [N |-> r1.N, root |-> root, err |-> r1.err]
  ELSE SSUpdateMultiInner(F, root, seg, unvalid_leafs, new_leafs,
         Inner(r1.N, F, seg, SubSeq(unvalid_leafs, 2, Len(unvalid_leafs) - 1), new_leafs))

\* line 551: the leaf of the left endpoint is replaced by its tree
SSUpdateMultiTree(F, root, seg, unvalid_leafs, new_leafs, t1) ==
  SSUpdateMultiLeft(F, root, seg, unvalid_leafs, new_leafs,
                    ReplaceWith(t1.N, PyAt(unvalid_leafs, 0), t1.tree))

\* Complicated case (lines 537-620)
SSUpdateMulti(N0, F, root, seg, unvalid_leafs, new_leafs) ==
  SSUpdateMultiTree(F, root, seg, unvalid_leafs, new_leafs,
                    WrapLeft(LeftTree(N0, seg, new_leafs), seg, PyAt(new_leafs, 0)))

\* VDSearchStructure.update(line_segment, unvalid_leafs, new_leafs)
SSUpdate(N0, F, root, seg, unvalid_leafs, new_leafs) ==
  IF Len(unvalid_leafs) = 1
    THEN SSUpdateSingle(N0, root, seg, unvalid_leafs, new_leafs)
    ELSE SSUpdateMulti(N0, F, root, seg, unvalid_leafs, new_leafs)

\* ------------------------------------------------------ input conditions
Sign(v) == IF v > 0 THEN 1 ELSE IF v < 0 THEN 0 - 1 ELSE 0

\* no endpoint of t lies on the supporting line of s, except an endpoint
\* that coincides with an endpoint of s
NoPointOnLine(s, t) ==
  \A q \in {Seg(t).left, Seg(t).right} :
    VOrient(q, s) = "ON" => (PointEq(q, Seg(s).left) \/ PointEq(q, Seg(s).right))

\* the interiors of s and t cross
ProperCross(s, t) ==
  /\ Sign(Cross(Seg(s).left, Seg(s).right, Seg(t).left))
       * Sign(Cross(Seg(s).left, Seg(s).right, Seg(t).right)) < 0
  /\ Sign(Cross(Seg(t).left, Seg(t).right, Seg(s).left))
       * Sign(Cross(Seg(t).left, Seg(t).right, Seg(s).right)) < 0

SameSegment(s, t) ==
  PointEq(Seg(s).left, Seg(t).left) /\ PointEq(Seg(s).right, Seg(t).right)

\* s and t are non-crossing and in general position
Compatible(s, t) ==
  ~SameSegment(s, t) /\ ~ProperCross(s, t) /\ NoPointOnLine(s, t) /\ NoPointOnLine(t, s)

\* ----------------------------------------------------------- the facade
VARIABLES
  faces,          \* heap of VDFace objects
  trapezoids,     \* VerticalDecomposition._trapezoids (references into faces)
  line_segments,  \* VerticalDecomposition._line_segments
  nodes,          \* heap of VDNode objects
  root,           \* VDSearchStructure._root
  outer_face,     \* PointLocation._dcel.outer_face (a Face object)
  bottom_above,   \* _above_dcel_face of the bottom sentinel segment
  dcel_count,     \* DoublyConnectedEdgeList objects constructed so far
  last_update,    \* the two lists returned by the last VerticalDecomposition.update
  err             \* exception raised by the last call, "none" if it returned

\* the caller's DoublyConnectedEdgeList and the calls made on it
VARIABLES
  d_vertices,     \* DoublyConnectedEdgeList._vertices (Vertex objects)
  d_edges,        \* DoublyConnectedEdgeList._edges (references into d_half)
  d_faces,        \* DoublyConnectedEdgeList._faces (Face objects)
  d_half,         \* heap of the HalfEdge objects the lists reference
  d_last,         \* the last call on the DCEL: its arguments and its outcome
  requested,      \* the distinct points passed to add_vertex, in call order
  linked,         \* the pairs of requested points passed to add_edge by index
  d_segments      \* the outcome of the last dcel_prepocessing call on the DCEL

dcel_vars == << d_vertices, d_edges, d_faces, d_half, d_last, requested, linked,
               d_segments >>

VARIABLES
  split_edge,     \* the half-edge handed to _split_face: its cycle, its twin's
                  \* cycle (origin points in next order) and their incident face
  split_last      \* the outcome of the _split_face call

split_vars == << split_edge, split_last >>

VARIABLES
  build_last      \* the last build_vertical_decomposition call: its argument
                  \* and the number of segments inserted before it

VARIABLES
  fan,            \* the half-edges around a vertex and the point handed to the
                  \* search for the angular slot of add_edge
  fan_last        \* the outcome of that search

fan_vars == << fan, fan_last >>

VARIABLES
  ds_parent,      \* DisjointSet.parent: a dict, the function from the known
                  \* elements to their parent
  ds_rank,        \* DisjointSet.rank: a dict with the same keys
  ds_classes,     \* the classes of the elements handed over so far under the
                  \* closure of the union calls made so far
  ds_last         \* the last call on the DisjointSet and what it returned

ds_vars == << ds_parent, ds_rank, ds_classes, ds_last >>

VARIABLES
  ct_nodes,       \* the ComponentTreeNode objects in the order of their creation
  ct_root,        \* ComponentTree._root
  ct_leafQueue,   \* ComponentTree._leafQueue
  ct_inserted,    \* the disks handed to insert_disk so far
  ct_err          \* the exception of the last insert_disk call

ct_vars == << ct_nodes, ct_root, ct_leafQueue, ct_inserted, ct_err >>

\* the state of the objects beside the facade and its DCEL
aux_vars == << fan_vars, ds_vars, ct_vars >>

vars == << faces, trapezoids, line_segments, nodes, root, outer_face, bottom_above,
          dcel_count, last_update, err, dcel_vars, split_vars, build_last, aux_vars >>

\* the outer Face object created by the k-th DoublyConnectedEdgeList.clear
OuterFaceOf(k) == [is_outer |-> TRUE, id |-> k]

\* an inner Face object of the facade's DCEL
InnerFace(tag) == [is_outer |-> FALSE, id |-> tag]

\* VerticalDecomposition.__init__ followed by VDSearchStructure.__init__:
\* one trapezoid spanning the box and its leaf
SeedFaces == << [NewFace(TopSeg, BottomSeg, upper_left, upper_right) EXCEPT !.search_leaf = 1] >>

SeedNodes == << Leaf(1) >>

\* the points a caller passes to add_vertex: the triangle of Scenario C, a
\* point inside it and a point outside it
DcelPoints ==
  { Pt(0, 0, 201), Pt(10, 0, 202), Pt(5, 10, 203), Pt(5, 3, 204), Pt(20, 3, 205) }

\* the index pairs a caller passes to add_edge
EdgeArgs ==
  { << 0, 1 >>, << 1, 2 >>, << 2, 0 >>, << 3, 4 >>, << 0, 3 >>,
    << 0 - 1, 0 >>, << 0, 5 >>, << 1, 1 >> }

\* no call has been made on the DCEL yet
NoCall == [op |-> "none", point |-> NoPoint, edge |-> <<>>, known |-> FALSE,
           ret |-> "None", err |-> "none"]

\* DoublyConnectedEdgeList.number_of_vertices
number_of_vertices(V) == Len(V)

\* DoublyConnectedEdgeList.inner_faces
inner_faces(Fs) == SelectSeq(Fs, LAMBDA f : ~f.is_outer)

\* DoublyConnectedEdgeList.find_containing_face: Face.contains is called for
\* each inner face; it calls is_convex, which takes len() of the bound
\* method outer_vertices (objects.py line 175) and raises TypeError
find_containing_face(Fs, point) ==
  IF inner_faces(Fs) # <<>> THEN [err |-> "TypeError", face |-> None]
  ELSE [err |-> "none", face |-> Fs[1]]

\* point in [vertex.point for vertex in self._vertices] (line 28)
PointInVertices(V, point) == \E k \in 1..Len(V) : PointEq(V[k].point, point)

\* newVertex.edge.incident_face = face (dcel.py line 31) and
\* half_edge_0.incident_face = face_0 (line 84): HalfEdge.incident_face is
\* a property with a getter only (objects.py lines 94-96), the assignment
\* raises
AssignIncidentFace(H, e, face) == [H |-> H, err |-> "AttributeError"]

\* DoublyConnectedEdgeList.add_vertex(point): the lists after the call, what
\* it returned and what it raised. The Vertex made at line 30 and its
\* HalfEdge are referenced by nothing once line 31 has raised
add_vertex(V, E, Fs, H, point) ==
  IF PointInVertices(V, point)
    THEN [V |-> V, E |-> E, Fs |-> Fs, H |-> H, ret |-> "None", err |-> "none"]
  ELSE IF find_containing_face(Fs, point).err # "none"
    THEN [V |-> V, E |-> E, Fs |-> Fs, H |-> H, ret |-> "None",
          err |-> find_containing_face(Fs, point).err]
  ELSE IF AssignIncidentFace(H, Len(H) + 1, find_containing_face(Fs, point).face).err # "none"
    THEN [V |-> V, E |-> E, Fs |-> Fs, H |-> H, ret |-> "None",
          err |-> AssignIncidentFace(H, Len(H) + 1, find_containing_face(Fs, point).face).err]
  ELSE [V |-> Append(V, [point |-> point, edge |-> Len(H) + 1]),
        E |-> Append(E, Len(H) + 1),
        Fs |-> Fs,
        H |-> AssignIncidentFace(H, Len(H) + 1, find_containing_face(Fs, point).face).H,
        ret |-> "Vertex", err |-> "none"]

\* the index test of add_edge (lines 39-40)
ImpossibleIndices(V, i, j) ==
  i >= number_of_vertices(V) \/ i < 0 \/ j >= number_of_vertices(V) \/ j < 0

\* vertex.edge == vertex.edge.twin (lines 46 and 51): the vertex has no edge
SingleVertex(H, v) == H[v.edge].twin = v.edge

\* add_edge past the index test for two vertices without edges (lines 42-85):
\* both half-edges are reused (lines 47, 52), both faces are the containing
\* ones (lines 78-79), line 82 raises if they differ and line 84 raises in
\* the assignment otherwise
add_edge_single(V, E, Fs, H, i, j) ==
  IF find_containing_face(Fs, V[i + 1].point).err # "none"
    THEN [V |-> V, E |-> E, Fs |-> Fs, H |-> H, ret |-> "None",
          err |-> find_containing_face(Fs, V[i + 1].point).err]
  ELSE IF find_containing_face(Fs, V[i + 1].point).face
            # find_containing_face(Fs, V[j + 1].point).face
    THEN [V |-> V, E |-> E, Fs |-> Fs, H |-> H, ret |-> "None", err |-> "RuntimeError"]
  ELSE [V |-> V, E |-> E, Fs |-> Fs,
        H |-> AssignIncidentFace(H, V[i + 1].edge,
                                 find_containing_face(Fs, V[i + 1].point).face).H,
        ret |-> "None",
        err |-> AssignIncidentFace(H, V[i + 1].edge,
                                   find_containing_face(Fs, V[i + 1].point).face).err]

\* add_edge without the index test of lines 39-41: the subscript of line 42
\* raises for an index past the list
add_edgeNoIndexGuard(V, E, Fs, H, i, j) ==
  IF ImpossibleIndices(V, i, j)
    THEN [V |-> V, E |-> E, Fs |-> Fs, H |-> H, ret |-> "None", err |-> "IndexError"]
  ELSE IF SingleVertex(H, V[i + 1]) /\ SingleVertex(H, V[j + 1])
    THEN add_edge_single(V, E, Fs, H, i, j)
  ELSE [V |-> V, E |-> E, Fs |-> Fs, H |-> H, ret |-> "None", err |-> "AttributeError"]

\* DoublyConnectedEdgeList.add_edge(edge). A vertex with an edge is made
\* only by lines 107-116, which follow the assignment of line 84: every
\* stored vertex is a single vertex, and a call that meets another one
\* appends a fresh HalfEdge (lines 49-50, 54-55) before it raises at line
\* 82 or 84
add_edge(V, E, Fs, H, i, j) ==
  IF ImpossibleIndices(V, i, j)
    THEN [V |-> V, E |-> E, Fs |-> Fs, H |-> H, ret |-> "None", err |-> "none"]
  ELSE IF SingleVertex(H, V[i + 1]) /\ SingleVertex(H, V[j + 1])
    THEN add_edge_single(V, E, Fs, H, i, j)
  ELSE [V |-> V,
        E |-> E \o (IF SingleVertex(H, V[i + 1]) THEN <<>> ELSE << Len(H) + 1 >>)
               \o (IF SingleVertex(H, V[j + 1]) THEN <<>> ELSE << Len(H) + 2 >>),
        Fs |-> Fs, H |-> H, ret |-> "None", err |-> "AttributeError"]

\* dcel_prepocessing has not been called
NoSegments == [called |-> FALSE, segments |-> <<>>, err |-> "none"]

\* what the attribute dcel.edges evaluates to (dcel.py lines 208-209): edges
\* is defined without @property, so the attribute is the bound method
edges(E) == [kind |-> "method", list |-> E]

\* PointLocation.dcel_prepocessing(dcel): the for statement of line 100
\* iterates dcel.edges, and a method is not iterable; line 101 reads
\* HalfEdge.left_and_right, which objects.py does not define
dcel_prepocessing(E, H) ==
  IF edges(E).kind = "method"
    THEN [segments |-> <<>>, err |-> "TypeError"]
  ELSE IF edges(E).list # <<>>
    THEN [segments |-> <<>>, err |-> "AttributeError"]
  ELSE [segments |-> <<>>, err |-> "none"]

\* build_vertical_decomposition has not been called
NoBuild == [called |-> FALSE, segments |-> <<>>, before |-> 0]

\* no vertex has been handed to the search for the angular slot
NoFan == [H |-> <<>>, vertex_edge |-> None, point |-> NoPoint]

NoSearch == [called |-> FALSE, err |-> "none", search_edge |-> None, steps |-> 0]

\* the vertex whose slots are searched and the points around it: its eight
\* grid neighbors and one point behind the neighbor to the right
FanCenter == Pt(1, 1, 0)

FanPoints == ({ Pt(x, y, 0) : x \in 0..2, y \in 0..2 } \cup { Pt(3, 1, 0) }) \ { FanCenter }

\* the sequences of n different points around the vertex
RECURSIVE SpokeSeqs(_)
SpokeSeqs(n) ==
  IF n = 0 THEN { <<>> }
  ELSE { Append(c[1], c[2]) :
           c \in { d \in SpokeSeqs(n - 1) \X FanPoints :
                     \A i \in 1..Len(d[1]) : d[1][i] # d[2] } }

\* The half-edges of a vertex with the neighbors sp, each of them a dead
\* end: record 2i-1 is the half-edge to sp[i], record 2i its twin, and the
\* half-edge arriving from sp[i] continues (next) to the following neighbor
\* in sp, the last to the first
FanEdge(sp, e) ==
  IF e % 2 = 1
    THEN [origin |-> FanCenter, twin |-> e + 1, next |-> e + 1,
          prev |-> IF e = 1 THEN 2 * Len(sp) ELSE e - 1]
    ELSE [origin |-> sp[e \div 2], twin |-> e - 1, prev |-> e - 1,
          next |-> IF e = 2 * Len(sp) THEN 1 ELSE e + 1]

FanEdges(sp) == [e \in 1..(2 * Len(sp)) |-> FanEdge(sp, e)]

\* the searches a caller can start: the half-edges around a vertex, its
\* edge (Vertex.edge, an outgoing one) and the point of the other vertex
FanArgs ==
  { [H |-> FanEdges(sp), vertex_edge |-> 2 * j - 1, point |-> q] :
      sp \in UNION { SpokeSeqs(n) : n \in 1..MaxSpokes }, j \in 1..MaxSpokes, q \in FanPoints }

\* p.orientation(a, b): the side of the directed line from a to b
Orientation(p, a, b) ==
  IF Cross(a, b, p) > 0 THEN "LEFT" ELSE IF Cross(a, b, p) < 0 THEN "RIGHT" ELSE "BETWEEN"

\* HalfEdge.destination (objects.py lines 70-72)
Destination(H, e) == H[H[e].twin].origin

\* DoublyConnectedEdgeList._point_between_edge_and_next (lines 157-169)
point_between_edge_and_next(H, point, edge) ==
  IF H[edge].twin = H[edge].next THEN TRUE
  ELSE \/ /\ Orientation(point, H[edge].origin, Destination(H, edge)) = "LEFT"
          /\ \/ Orientation(point, H[H[edge].next].origin, Destination(H, H[edge].next)) = "LEFT"
             \/ Orientation(Destination(H, H[edge].next), H[edge].origin, Destination(H, edge)) = "RIGHT"
       \/ /\ Orientation(point, H[H[edge].next].origin, Destination(H, H[edge].next)) = "LEFT"
          /\ Orientation(H[edge].origin, H[H[edge].next].origin, Destination(H, H[edge].next)) = "RIGHT"

\* mutant of slot_loop: the return to the starting edge is not noticed
RECURSIVE slot_loopNoStartTest(_, _, _, _, _, _)
slot_loopNoStartTest(H, point, search_edge, start, steps, fuel) ==
  IF point_between_edge_and_next(H, point, search_edge)
    THEN [called |-> TRUE, err |-> "none", search_edge |-> search_edge, steps |-> steps]
  ELSE IF fuel = 0
    THEN [called |-> TRUE, err |-> "NoTermination", search_edge |-> None, steps |-> steps]
  ELSE slot_loopNoStartTest(H, point, H[H[search_edge].next].twin, start, steps + 1, fuel - 1)

\* the while loop of add_edge (lines 89-92): step to search_edge.next.twin
\* until the point lies between the edge and its next, or the starting edge
\* is met again
RECURSIVE slot_loop(_, _, _, _, _, _)
slot_loop(H, point, search_edge, start, steps, fuel) ==
  IF point_between_edge_and_next(H, point, search_edge)
    THEN [called |-> TRUE, err |-> "none", search_edge |-> search_edge, steps |-> steps]
  ELSE IF fuel = 0
    THEN [called |-> TRUE, err |-> "NoTermination", search_edge |-> None, steps |-> steps]
  ELSE IF H[H[search_edge].next].twin = start
    THEN [called |-> TRUE, err |-> "Exception", search_edge |-> None, steps |-> steps + 1]
  ELSE slot_loop(H, point, H[H[search_edge].next].twin, start, steps + 1, fuel - 1)

\* "Find correct order around vertex" (lines 87-92 and 95-100) for the
\* vertex with the half-edge vertex_edge and the point of the other vertex
find_slot(H, vertex_edge, point) ==
  IF vertex_edge # H[vertex_edge].twin /\ H[vertex_edge].twin # H[vertex_edge].prev
    THEN slot_loop(H, point, H[vertex_edge].twin, H[vertex_edge].twin, 0, Len(H) + 1)
    ELSE [called |-> TRUE, err |-> "none", search_edge |-> H[vertex_edge].twin, steps |-> 0]

\* no half-edge has been handed to _split_face
NoEdge == [cycle |-> <<>>, twin_cycle |-> <<>>, face |-> None]

NoSplit == [called |-> FALSE, outer_component |-> "none", new_face |-> None,
            incident |-> [edge |-> None, twin |-> None], err |-> "none"]

\* the sum of _is_cycle_clockwise (lines 198-200) over the half-edges k..
\* of a cycle given by its origins; the destination of a half-edge is the
\* origin of its next
RECURSIVE CycleSum(_, _)
CycleSum(c, k) ==
  IF k > Len(c) THEN 0
  ELSE (c[k].y + c[(k % Len(c)) + 1].y) * (c[k].x - c[(k % Len(c)) + 1].x)
         + CycleSum(c, k + 1)

\* DoublyConnectedEdgeList._is_cycle_clockwise(start_edge): a < -epsilon;
\* on integer coordinates this is a < 0
is_cycle_clockwise(c) == CycleSum(c, 1) < 0

\* face.outer_component = ... (line 183): Face.outer_component is a property
\* without a setter (objects.py lines 120-122)
AssignOuterComponent(face, e) == [err |-> "AttributeError"]

\* DoublyConnectedEdgeList._update_face_in_cycle(start_edge, face): the
\* assignment to the first half-edge of the cycle decides
update_face_in_cycle(H, inc, start_edge, face) ==
  IF AssignIncidentFace(H, start_edge, face).err # "none"
    THEN [inc |-> inc, err |-> AssignIncidentFace(H, start_edge, face).err]
    ELSE [inc |-> [inc EXCEPT ![start_edge] = face], err |-> "none"]

\* the twin of the half-edge named "edge" or "twin"
TwinOf(e) == IF e = "edge" THEN "twin" ELSE "edge"

CycleOf(arg, e) == IF e = "edge" THEN arg.cycle ELSE arg.twin_cycle

\* _split_face from line 181 on, inner_edge chosen and new_face appended
split_face_relabel(H, arg, inner_edge, new_face) ==
  IF is_cycle_clockwise(CycleOf(arg, TwinOf(inner_edge)))
       /\ AssignOuterComponent(arg.face, TwinOf(inner_edge)).err # "none"
    THEN [inc |-> [edge |-> arg.face, twin |-> arg.face],
          err |-> AssignOuterComponent(arg.face, TwinOf(inner_edge)).err]
  ELSE IF update_face_in_cycle(H, [edge |-> arg.face, twin |-> arg.face],
                               inner_edge, new_face).err # "none"
    THEN update_face_in_cycle(H, [edge |-> arg.face, twin |-> arg.face],
                              inner_edge, new_face)
  ELSE update_face_in_cycle(H,
         update_face_in_cycle(H, [edge |-> arg.face, twin |-> arg.face],
                              inner_edge, new_face).inc,
         TwinOf(inner_edge), arg.face)

\* line 176 with the test turned round: the clockwise cycle is taken
InnerEdgeClockwise(arg) == IF is_cycle_clockwise(arg.cycle) THEN "edge" ELSE "twin"

\* the half-edge that starts the cycle of the new face (line 176)
InnerEdge(arg) == IF ~is_cycle_clockwise(arg.cycle) THEN "edge" ELSE "twin"

\* DoublyConnectedEdgeList._split_face(edge, face): the new Face is made and
\* appended (lines 178-179) before anything is assigned
split_face(H, Fs, arg) ==
  [Fs |-> Append(Fs, InnerFace(10 + Len(Fs))),
   outer_component |-> InnerEdge(arg),
   new_face |-> 10 + Len(Fs),
   inc |-> split_face_relabel(H, arg, InnerEdge(arg), 10 + Len(Fs)).inc,
   err |-> split_face_relabel(H, arg, InnerEdge(arg), 10 + Len(Fs)).err]

\* points of the cycles handed to _split_face
SplitPoints == { Pt(x, y, 300 + 10 * x + y) : x \in 0..SplitGrid, y \in 0..SplitGrid }

\* an edge a -> b that closes the chain b, c, a lying in the outer face:
\* the twin's cycle runs round the same triangle the other way
ClosingEdges ==
  { [cycle |-> << a, b, c >>, twin_cycle |-> << b, a, c >>, face |-> 1] :
      << a, b, c >> \in { t \in SplitPoints \X SplitPoints \X SplitPoints :
                            Cross(t[1], t[2], t[3]) # 0 } }

\* an edge a -> b across the inner face bounded by the convex
\* counter-clockwise quadrilateral a, d, b, c
ChordEdges ==
  { [cycle |-> << q[1], q[2], q[3] >>, twin_cycle |-> << q[2], q[1], q[4] >>, face |-> 10] :
      q \in { t \in SplitPoints \X SplitPoints \X SplitPoints \X SplitPoints :
                /\ Cross(t[1], t[2], t[3]) > 0
                /\ Cross(t[1], t[2], t[4]) < 0
                /\ Cross(t[4], t[3], t[1]) > 0
                /\ Cross(t[4], t[3], t[2]) < 0 } }

\* the faces of the DCEL the half-edge of arg lies in
FacesFor(arg) ==
  IF arg.face = 1 THEN << OuterFaceOf(1) >> ELSE << OuterFaceOf(1), InnerFace(10) >>

\* PointLocation.__init__: the facade's DCEL is the first one constructed
\* (its outer face tags the bottom sentinel at line 16); line 20 then runs
\* build_vertical_decomposition, whose clear_vertical_decomposition builds
\* the decomposition again over a second, fresh DoublyConnectedEdgeList.
\* dcel_prepocessing (lines 98-106) is taken to hand over no segment: the
\* segments, tagged with the face above them as line 103 does, arrive
\* through insert
InitFacade ==
  /\ faces = SeedFaces
  /\ trapezoids = << 1 >>
  /\ line_segments = <<>>
  /\ nodes = SeedNodes
  /\ root = 1
  /\ outer_face = OuterFaceOf(1)
  /\ bottom_above = OuterFaceOf(2)
  /\ dcel_count = 2
  /\ last_update = [unvalid |-> <<>>, new |-> <<>>]
  /\ err = "none"
  /\ d_vertices = <<>>
  /\ d_edges = <<>>
  /\ d_half = <<>>
  /\ d_last = NoCall
  /\ requested = <<>>
  /\ linked = {}
  /\ d_segments = NoSegments
  /\ build_last = NoBuild

\* no call has been made on the DisjointSet
NoDsCall == [op |-> "none", ret |-> None, err |-> "none"]

\* DisjointSet.__init__ (lines 6-8): two empty dicts
InitDisjointSet ==
  /\ ds_parent = << >>
  /\ ds_rank = << >>
  /\ ds_classes = {}
  /\ ds_last = NoDsCall

\* ComponentTreeNode.__init__ (lines 135-141); the QuadTree _awnn is kept
\* as the set of the disks stored in it, has tells whether _component is a
\* list
NewTreeNode(level) ==
  [has |-> FALSE, component |-> << >>, awnn |-> {}, left |-> None, right |-> None,
   parent |-> None, level |-> level]

\* ComponentTree.__init__ (lines 23-25): the root, which is in the queue
InitComponentTree ==
  /\ ct_nodes = << NewTreeNode(0) >>
  /\ ct_root = 1
  /\ ct_leafQueue = << 1 >>
  /\ ct_inserted = << >>
  /\ ct_err = "none"

\* nothing has been handed to the objects beside the facade
InitAux ==
  /\ fan = NoFan
  /\ fan_last = NoSearch
  /\ InitDisjointSet
  /\ InitComponentTree

Init ==
  /\ InitFacade
  /\ InitAux
  /\ d_faces = << OuterFaceOf(1) >>
  /\ split_edge = NoEdge
  /\ split_last = NoSplit

\* [trapezoid.search_leaf for trapezoid in unvalid_trapezoids] (line 94)
LeafsOf(F, ts) == [i \in 1..Len(ts) |-> F[ts[i]].search_leaf]

\* the state PointLocation.insert leaves when nothing was raised before
\* the search structure update
InsertResult(u, ml, ss) ==
  [F |-> ml.F, live |-> u.live, N |-> ss.N, root |-> ss.root, appended |-> TRUE,
   unvalid |-> u.unvalid, new |-> u.new, err |-> ss.err]

\* line 96 once the leafs are known
InsertSearchStructure(rt, seg, u, unvalid_leafs, ml) ==
  InsertResult(u, ml, SSUpdate(ml.N, ml.F, rt, seg, unvalid_leafs, ml.leafs))

\* lines 93-96 once the decomposition has been updated
InsertLeafs(N, rt, seg, u) ==
  IF u.err # "none"
    THEN [F |-> u.F, live |-> u.live, N |-> N, root |-> rt, appended |-> TRUE,
          unvalid |-> <<>>, new |-> <<>>, err |-> u.err]
    ELSE InsertSearchStructure(rt, seg, u, LeafsOf(u.F, u.unvalid),
                               MakeLeafs([N |-> N, F |-> u.F, leafs |-> <<>>], u.new))

\* lines 90-96 once the trapezoid of the left endpoint is known
InsertLocated(F, live, N, rt, seg, sr) ==
  IF sr.err # "none"
    THEN [F |-> F, live |-> live, N |-> N, root |-> rt, appended |-> FALSE,
          unvalid |-> <<>>, new |-> <<>>, err |-> sr.err]
    ELSE InsertLeafs(N, rt, seg, VDUpdate(F, live, seg, sr.face))

\* PointLocation.insert(line_segment) on the heaps: the state it leaves and
\* the exception it raised, if any
InsertOp(F, live, N, rt, seg) ==
  InsertLocated(F, live, N, rt, seg, Search(N, rt, Seg(seg).left, seg, Len(N) + 1))

\* the segment sequences handed to build_vertical_decomposition: pairwise
\* compatible pool segments, each at most once
RECURSIVE CompatibleSeqs(_)
CompatibleSeqs(n) ==
  IF n = 0 THEN { <<>> }
  ELSE CompatibleSeqs(n - 1)
         \cup { Append(q, seg) : << q, seg >> \in
                  { c \in CompatibleSeqs(n - 1) \X PoolIds :
                      /\ Len(c[1]) = n - 1
                      /\ \A i \in 1..Len(c[1]) : Compatible(c[2], c[1][i]) } }

BuildArgs == CompatibleSeqs(MaxBuildLen)

\* mutant of clear_vertical_decomposition: the decomposition and the search
\* structure are kept
clear_vertical_decompositionKeeps(F, live, N, rt, ls) ==
  [F |-> F, live |-> live, N |-> N, root |-> rt, line_segments |-> ls,
   unvalid |-> <<>>, new |-> <<>>, err |-> "none"]

\* PointLocation.clear_vertical_decomposition: a new VerticalDecomposition
\* with its one trapezoid and a new VDSearchStructure with its one leaf
\* replace the current ones (lines 82-84)
clear_vertical_decomposition(F, live, N, rt, ls) ==
  [F |-> SeedFaces, live |-> << 1 >>, N |-> SeedNodes, root |-> 1, line_segments |-> <<>>,
   unvalid |-> <<>>, new |-> <<>>, err |-> "none"]

\* the facade after the insert call of line 113 with the outcome r
BuildInserted(st, seg, r) ==
  [F |-> r.F, live |-> r.live, N |-> r.N, root |-> r.root,
   line_segments |-> IF r.appended THEN Append(st.line_segments, seg) ELSE st.line_segments,
   unvalid |-> r.unvalid, new |-> r.new, err |-> r.err]

\* the loop of lines 112-113; an exception of insert ends it
RECURSIVE BuildLoop(_, _)
BuildLoop(st, segments) ==
  IF segments = <<>> \/ st.err # "none" THEN st
  ELSE BuildLoop(BuildInserted(st, Head(segments),
                               InsertOp(st.F, st.live, st.N, st.root, Head(segments))),
                 Tail(segments))

\* PointLocation.build_vertical_decomposition(segments)
build_vertical_decomposition(F, live, N, rt, ls, segments) ==
  BuildLoop(clear_vertical_decomposition(F, live, N, rt, ls), segments)

\* the objects as PointLocation.insert leaves them
InsertCommit(seg, r) ==
  /\ faces' = r.F
  /\ trapezoids' = r.live
  /\ nodes' = r.N
  /\ root' = r.root
  /\ line_segments' = IF r.appended THEN Append(line_segments, seg) ELSE line_segments
  /\ last_update' = [unvalid |-> r.unvalid, new |-> r.new]
  /\ err' = r.err

\* a caller inserts a segment that is compatible with the inserted ones
Insert(seg) ==
  /\ Len(line_segments) < MaxInserts
  /\ \A i \in 1..Len(line_segments) : Compatible(seg, line_segments[i])
  /\ InsertCommit(seg, InsertOp(faces, trapezoids, nodes, root, seg))
  /\ UNCHANGED << outer_face, bottom_above, dcel_count, dcel_vars, split_vars, build_last, aux_vars >>

Next == \E seg \in PoolIds : Insert(seg)

Spec == Init /\ [][Next]_vars

\* the objects as build_vertical_decomposition leaves them
BuildCommit(st) ==
  /\ faces' = st.F
  /\ trapezoids' = st.live
  /\ nodes' = st.N
  /\ root' = st.root
  /\ line_segments' = st.line_segments
  /\ last_update' = [unvalid |-> st.unvalid, new |-> st.new]
  /\ err' = st.err

\* a caller calls build_vertical_decomposition(segments); the new
\* VerticalDecomposition is made over one more fresh DoublyConnectedEdgeList
\* (line 82), whose outer face tags the bottom side of the box
Build(segments) ==
  /\ dcel_count < 2 + MaxBuilds
  /\ BuildCommit(build_vertical_decomposition(faces, trapezoids, nodes, root,
                                              line_segments, segments))
  /\ dcel_count' = dcel_count + 1
  /\ bottom_above' = OuterFaceOf(dcel_count + 1)
  /\ build_last' = [called |-> TRUE, segments |-> segments,
                    before |-> Len(line_segments)]
  /\ UNCHANGED << outer_face, dcel_vars, split_vars, aux_vars >>

NextBuild ==
  \/ \E seg \in PoolIds : Insert(seg)
  \/ \E segments \in BuildArgs : Build(segments)

\* insert and build_vertical_decomposition calls on the facade
SpecBuild == Init /\ [][NextBuild]_vars

\* a caller calls PointLocation.clear() (lines 77-79):
\* clear_vertical_decomposition makes the new VerticalDecomposition over one
\* more fresh DoublyConnectedEdgeList (line 82), then the facade's own DCEL
\* is cleared, which gives it empty lists and a new outer Face object
\* (dcel.py lines 125-132)
Clear ==
  /\ dcel_count + 2 <= 2 + 2 * MaxClears
  /\ BuildCommit(clear_vertical_decomposition(faces, trapezoids, nodes, root, line_segments))
  /\ bottom_above' = OuterFaceOf(dcel_count + 1)
  /\ outer_face' = OuterFaceOf(dcel_count + 2)
  /\ dcel_count' = dcel_count + 2
  /\ d_vertices' = <<>>
  /\ d_edges' = <<>>
  /\ d_half' = <<>>
  /\ d_faces' = << OuterFaceOf(dcel_count + 2) >>
  /\ requested' = <<>>
  /\ linked' = {}
  /\ UNCHANGED << d_last, d_segments, split_vars, build_last, aux_vars >>

NextClear ==
  \/ \E seg \in PoolIds : Insert(seg)
  \/ Clear

\* insert and clear calls on the facade
SpecClear == Init /\ [][NextClear]_vars

\* s and t lie on one line and share more than a point
Overlap(s, t) ==
  /\ VOrient(Seg(t).left, s) = "ON"
  /\ VOrient(Seg(t).right, s) = "ON"
  /\ HOrient(Seg(s).left, Seg(t).right) = "LEFT"
  /\ HOrient(Seg(t).left, Seg(s).right) = "LEFT"

\* a caller inserts a segment that crosses no inserted one but need not be
\* in general position with them; after an exception the callers stop
InsertDegenerate(seg) ==
  /\ err = "none"
  /\ Len(line_segments) < MaxInserts
  /\ \A i \in 1..Len(line_segments) :
       /\ ~SameSegment(seg, line_segments[i])
       /\ ~ProperCross(seg, line_segments[i])
       /\ ~Overlap(seg, line_segments[i])
  /\ InsertCommit(seg, InsertOp(faces, trapezoids, nodes, root, seg))
  /\ UNCHANGED << outer_face, bottom_above, dcel_count, dcel_vars, split_vars, build_last, aux_vars >>

NextDegenerate == \E seg \in PoolIds \cup DegenerateIds : InsertDegenerate(seg)

\* insert calls on the facade without the general position of the input
SpecDegenerate == Init /\ [][NextDegenerate]_vars

\* the state of the DCEL after a call
DcelCommit(r) ==
  /\ d_vertices' = r.V
  /\ d_edges' = r.E
  /\ d_faces' = r.Fs
  /\ d_half' = r.H

\* the points behind the index pair of an add_edge call, as the caller
\* numbers the points it has passed to add_vertex
PointPair(i, j) ==
  IF i >= 0 /\ i < Len(requested) /\ j >= 0 /\ j < Len(requested)
    THEN { { requested[i + 1], requested[j + 1] } }
    ELSE {}

\* p occurs in the sequence of requested points
Requested(p) == \E k \in 1..Len(requested) : PointEq(requested[k], p)

\* a caller calls add_vertex(point)
AddVertex(point) ==
  /\ DcelCommit(add_vertex(d_vertices, d_edges, d_faces, d_half, point))
  /\ d_last' = [op |-> "add_vertex", point |-> point, edge |-> <<>>,
                known |-> Requested(point),
                ret |-> add_vertex(d_vertices, d_edges, d_faces, d_half, point).ret,
                err |-> add_vertex(d_vertices, d_edges, d_faces, d_half, point).err]
  /\ requested' = IF Requested(point) THEN requested ELSE Append(requested, point)
  /\ UNCHANGED << faces, trapezoids, line_segments, nodes, root, outer_face, bottom_above,
                  dcel_count, last_update, err, linked, d_segments, split_vars, build_last, aux_vars >>

\* a caller calls add_edge((i, j))
AddEdge(i, j) ==
  /\ DcelCommit(add_edge(d_vertices, d_edges, d_faces, d_half, i, j))
  /\ d_last' = [op |-> "add_edge", point |-> NoPoint, edge |-> << i, j >>,
                known |-> PointPair(i, j) # {},
                ret |-> add_edge(d_vertices, d_edges, d_faces, d_half, i, j).ret,
                err |-> add_edge(d_vertices, d_edges, d_faces, d_half, i, j).err]
  /\ linked' = linked \cup PointPair(i, j)
  /\ UNCHANGED << faces, trapezoids, line_segments, nodes, root, outer_face, bottom_above,
                  dcel_count, last_update, err, requested, d_segments, split_vars, build_last, aux_vars >>

\* a caller calls PointLocation.dcel_prepocessing(dcel)
DcelPreprocessing ==
  /\ d_segments' = [called |-> TRUE,
                    segments |-> dcel_prepocessing(d_edges, d_half).segments,
                    err |-> dcel_prepocessing(d_edges, d_half).err]
  /\ UNCHANGED << faces, trapezoids, line_segments, nodes, root, outer_face, bottom_above,
                  dcel_count, last_update, err, d_vertices, d_edges, d_faces, d_half,
                  d_last, requested, linked, split_vars, build_last, aux_vars >>

NextDcel ==
  \/ \E point \in DcelPoints : AddVertex(point)
  \/ \E e \in EdgeArgs : AddEdge(e[1], e[2])
  \/ DcelPreprocessing

\* the calls on a DoublyConnectedEdgeList alone
SpecDcel == Init /\ [][NextDcel]_vars

\* a DCEL in which a half-edge between two vertices of one face has been
\* spliced in (lines 103-116) and not yet been handed to _split_face
InitSplit ==
  /\ InitFacade
  /\ InitAux
  /\ split_edge \in ClosingEdges \cup ChordEdges
  /\ d_faces = FacesFor(split_edge)
  /\ split_last = NoSplit

\* _split_face(edge, face) is called (line 119)
SplitFace ==
  /\ ~split_last.called
  /\ split_edge # NoEdge
  /\ d_faces' = split_face(d_half, d_faces, split_edge).Fs
  /\ split_last' = [called |-> TRUE,
                    outer_component |-> split_face(d_half, d_faces, split_edge).outer_component,
                    new_face |-> split_face(d_half, d_faces, split_edge).new_face,
                    incident |-> split_face(d_half, d_faces, split_edge).inc,
                    err |-> split_face(d_half, d_faces, split_edge).err]
  /\ UNCHANGED << faces, trapezoids, line_segments, nodes, root, outer_face, bottom_above,
                  dcel_count, last_update, err, d_vertices, d_edges, d_half, d_last,
                  requested, linked, d_segments, split_edge, build_last, aux_vars >>

NextSplit == SplitFace

\* _split_face alone, on the half-edge cycles of ClosingEdges and ChordEdges
SpecSplit == InitSplit /\ [][NextSplit]_vars

\* a vertex with its half-edges and a point, as add_edge has them at line 87
InitFan ==
  /\ InitFacade
  /\ d_faces = << OuterFaceOf(1) >>
  /\ split_edge = NoEdge
  /\ split_last = NoSplit
  /\ fan \in { a \in FanArgs : a.vertex_edge <= Len(a.H)
                                 /\ \A e \in DOMAIN a.H : a.H[e].origin # a.point }
  /\ fan_last = NoSearch
  /\ InitDisjointSet
  /\ InitComponentTree

\* add_edge searches the angular slot of the point around the vertex
FindSlot ==
  /\ ~fan_last.called
  /\ fan_last' = find_slot(fan.H, fan.vertex_edge, fan.point)
  /\ UNCHANGED << faces, trapezoids, line_segments, nodes, root, outer_face, bottom_above,
                  dcel_count, last_update, err, dcel_vars, split_vars, build_last, fan,
                  ds_vars, ct_vars >>

NextFan == FindSlot

\* the search for the angular slot on half-edges drawn from bounded sets
SpecFan == InitFan /\ [][NextFan]_vars

\* ------------------------------------------------------------ DisjointSet
\* the elements a caller hands to the DisjointSet
Elems == 1..MaxElems

\* mutant of find_store: the element is made its own parent
find_storeSelf(r, x) ==
  IF r.err # "none" THEN r
  ELSE [P |-> [r.P EXCEPT ![x] = x], rep |-> x, err |-> "none"]

\* line 17-18: the assignment self.parent[x] = ... (path compression) and
\* the return of self.parent[x]
find_store(r, x) ==
  IF r.err # "none" THEN r
  ELSE [P |-> [r.P EXCEPT ![x] = r.rep], rep |-> r.rep, err |-> "none"]

\* DisjointSet.find (lines 15-18); self.parent[x] raises KeyError for an
\* unknown x; depth is the recursion budget
RECURSIVE find(_, _, _)
find(P, x, depth) ==
  IF x \notin DOMAIN P THEN [P |-> P, rep |-> None, err |-> "KeyError"]
  ELSE IF depth = 0 THEN [P |-> P, rep |-> None, err |-> "RecursionError"]
  ELSE IF x # P[x] THEN find_store(find(P, P[x], depth - 1), x)
  ELSE [P |-> P, rep |-> P[x], err |-> "none"]

\* the recursion budget: one call more than there are elements
Depth == MaxElems + 1

\* DisjointSet.make_set (lines 10-13)
make_set(P, R, x) ==
  IF x \notin DOMAIN P
    THEN [P |-> P @@ (x :> x), R |-> R @@ (x :> 0)]
    ELSE [P |-> P, R |-> R]

\* lines 29-35: the representative of lower rank is hung below the other,
\* and the rank of rep_x grows when the ranks are equal
union_link(P, R, rep_x, rep_y) ==
  IF rep_x # rep_y
    THEN [P |-> IF R[rep_x] < R[rep_y] THEN [P EXCEPT ![rep_x] = rep_y]
                                       ELSE [P EXCEPT ![rep_y] = rep_x],
          R |-> IF R[rep_x] = R[rep_y] THEN [R EXCEPT ![rep_x] = @ + 1] ELSE R,
          err |-> "none"]
    ELSE [P |-> P, R |-> R, err |-> "none"]

\* lines 26-35 once both elements are known and rep_x has been found
union_second(R, fx, fy) ==
  IF fy.err # "none" THEN [P |-> fy.P, R |-> R, err |-> fy.err]
  ELSE union_link(fy.P, R, fx.rep, fy.rep)

union_first(R, fx, y) ==
  IF fx.err # "none" THEN [P |-> fx.P, R |-> R, err |-> fx.err]
  ELSE union_second(R, fx, find(fx.P, y, Depth))

union_known(m, x, y) == union_first(m.R, find(m.P, x, Depth), y)

\* DisjointSet.union (lines 20-35)
union(P, R, x, y) ==
  union_known(make_set(make_set(P, R, x).P, make_set(P, R, x).R, y), x, y)

\* DisjointSet.in_same_set (lines 40-41): find(x), then find(y)
in_same_set_second(fx, fy) ==
  IF fy.err # "none" THEN [P |-> fy.P, ret |-> None, err |-> fy.err]
  ELSE [P |-> fy.P, ret |-> (fx.rep = fy.rep), err |-> "none"]

in_same_set_first(fx, y) ==
  IF fx.err # "none" THEN [P |-> fx.P, ret |-> None, err |-> fx.err]
  ELSE in_same_set_second(fx, find(fx.P, y, Depth))

in_same_set(P, x, y) == in_same_set_first(find(P, x, Depth), y)

\* the classes with the element x, in a class of its own when it is new
WithElem(classes, x) ==
  IF \E c \in classes : x \in c THEN classes ELSE classes \cup { { x } }

\* the classes after x and y have been declared equivalent
Joined(classes, x, y) ==
  { c \in classes : x \notin c /\ y \notin c }
    \cup { UNION { c \in classes : x \in c \/ y \in c } }

\* a caller calls make_set(x)
MakeSet(x) ==
  /\ ds_parent' = make_set(ds_parent, ds_rank, x).P
  /\ ds_rank' = make_set(ds_parent, ds_rank, x).R
  /\ ds_last' = [op |-> "make_set", ret |-> None, err |-> "none"]
  /\ ds_classes' = WithElem(ds_classes, x)
  /\ UNCHANGED << faces, trapezoids, line_segments, nodes, root, outer_face, bottom_above,
                  dcel_count, last_update, err, dcel_vars, split_vars, build_last,
                  fan_vars, ct_vars >>

\* a caller calls find(x)
Find(x) ==
  /\ ds_parent' = find(ds_parent, x, Depth).P
  /\ ds_last' = [op |-> "find",
                 ret |-> find(ds_parent, x, Depth).rep,
                 err |-> find(ds_parent, x, Depth).err]
  /\ UNCHANGED << faces, trapezoids, line_segments, nodes, root, outer_face, bottom_above,
                  dcel_count, last_update, err, dcel_vars, split_vars, build_last,
                  fan_vars, ds_rank, ds_classes, ct_vars >>

\* a caller calls union(x, y)
Union(x, y) ==
  /\ ds_parent' = union(ds_parent, ds_rank, x, y).P
  /\ ds_rank' = union(ds_parent, ds_rank, x, y).R
  /\ ds_classes' = Joined(WithElem(WithElem(ds_classes, x), y), x, y)
  /\ ds_last' = [op |-> "union", ret |-> None,
                 err |-> union(ds_parent, ds_rank, x, y).err]
  /\ UNCHANGED << faces, trapezoids, line_segments, nodes, root, outer_face, bottom_above,
                  dcel_count, last_update, err, dcel_vars, split_vars, build_last,
                  fan_vars, ct_vars >>

\* a caller calls in_same_set(x, y)
InSameSet(x, y) ==
  /\ ds_parent' = in_same_set(ds_parent, x, y).P
  /\ ds_last' = [op |-> "in_same_set",
                 ret |-> in_same_set(ds_parent, x, y).ret,
                 err |-> in_same_set(ds_parent, x, y).err]
  /\ UNCHANGED << faces, trapezoids, line_segments, nodes, root, outer_face, bottom_above,
                  dcel_count, last_update, err, dcel_vars, split_vars, build_last,
                  fan_vars, ds_rank, ds_classes, ct_vars >>

NextDisjointSet ==
  \/ \E x \in Elems : MakeSet(x)
  \/ \E x \in Elems : Find(x)
  \/ \E x \in Elems : \E y \in Elems : Union(x, y)
  \/ \E x \in Elems : \E y \in Elems : InSameSet(x, y)

\* the calls on a DisjointSet
SpecDisjointSet == Init /\ [][NextDisjointSet]_vars

\* ---------------------------------------------------------- ComponentTree
\* The disks a caller may insert: center and radius. Four disks of radius
\* 2, the first three pairwise apart and the fourth meeting all of them, a
\* large disk and a small disk that meets the large one only. No center
\* has the same distance to two other centers.
Disks == <<
  [x |-> 0,  y |-> 0, r |-> 2],
  [x |-> 5,  y |-> 0, r |-> 2],
  [x |-> 2,  y |-> 5, r |-> 2],
  [x |-> 2,  y |-> 2, r |-> 2],
  [x |-> 20, y |-> 0, r |-> 7],
  [x |-> 12, y |-> 0, r |-> 1] >>

DiskIds == 1..Len(Disks)

\* the square of Point.distance between the centers of two disks
Dist2(a, b) ==
  (Disks[a].x - Disks[b].x) * (Disks[a].x - Disks[b].x)
    + (Disks[a].y - Disks[b].y) * (Disks[a].y - Disks[b].y)

\* the test of lines 77, 162 and 167: the distance of the centers is at
\* most the sum of the radii
Intersects(a, b) ==
  Dist2(a, b) <= (Disks[a].r + Disks[b].r) * (Disks[a].r + Disks[b].r)

\* QuadTree.nearest_neighbors(center)[0] for a non-empty index: the stored
\* disk whose center, the only thing the index was given (lines 59, 66,
\* 92, 99, 115), is nearest to the center of disk
Nearest(awnn, disk) ==
  CHOOSE n \in awnn : \A m \in awnn : Dist2(n, disk) <= Dist2(m, disk)

\* lines 160-162, 165-167 and 73-77: the index is not empty and the
\* nearest stored disk meets the disk
NearestMeets(awnn, disk) ==
  awnn # {} /\ Intersects(disk, Nearest(awnn, disk))

\* ComponentTreeNode.is_leaf
is_leaf(N, n) == N[n].left = None /\ N[n].right = None

\* the disks of a list
DiskSet(component) == { component[i] : i \in 1..Len(component) }

\* the results of the two children put together (lines 164 and 168)
query_extend(l, r) ==
  [list |-> l.list \o r.list,
   err |-> IF l.err # "none" THEN l.err ELSE r.err]

\* ComponentTreeNode.query_intersected (lines 154-170)
RECURSIVE query_intersected(_, _, _)
query_intersected(N, n, disk) ==
  IF is_leaf(N, n)
    THEN IF ~N[n].has THEN [list |-> << >>, err |-> "AssertionError"]
         ELSE [list |-> << n >>, err |-> "none"]
    ELSE query_extend(
           IF NearestMeets(N[N[n].left].awnn, disk)
             THEN query_intersected(N, N[n].left, disk)
             ELSE [list |-> << >>, err |-> "none"],
           IF NearestMeets(N[N[n].right].awnn, disk)
             THEN query_intersected(N, N[n].right, disk)
             ELSE [list |-> << >>, err |-> "none"])

\* ComponentTree.query_nodes (lines 71-79)
query_nodes(N, rt, disk) ==
  IF ~NearestMeets(N[rt].awnn, disk) THEN [list |-> << >>, err |-> "none"]
  ELSE query_intersected(N, rt, disk)

\* lines 36-37 and 39-40: the new subtree becomes a child of node
full_link_left(l, node) ==
  [N |-> [l.N EXCEPT ![node].left = l.node, ![l.node].parent = node],
   Q |-> l.Q, node |-> node]

full_link_right(r, node) ==
  [N |-> [r.N EXCEPT ![node].right = r.node, ![r.node].parent = node],
   Q |-> r.Q, node |-> node]

\* ComponentTree._full_sub_tree (lines 27-41): a full tree with depth
\* levels, its leaves appended to the queue
RECURSIVE full_sub_tree(_, _, _)
RECURSIVE full_right(_, _, _)
full_sub_tree(N, Q, depth) ==
  IF depth <= 0 THEN [N |-> N, Q |-> Q, node |-> None]
  ELSE IF depth - 1 = 0
    THEN [N |-> Append(N, NewTreeNode(0)), Q |-> Append(Q, Len(N) + 1), node |-> Len(N) + 1]
  ELSE full_right(full_link_left(full_sub_tree(Append(N, NewTreeNode(depth - 1)), Q, depth - 1),
                                 Len(N) + 1),
                  Len(N) + 1, depth)

full_right(m, node, depth) == full_link_right(full_sub_tree(m.N, m.Q, depth - 1), node)

\* lines 49-53: the new subtree becomes the right child of the new root,
\* which gets its level and the disks of the old root
double_right(sub, old_root, new_node) ==
  [N |-> [sub.N EXCEPT ![new_node].right = sub.node,
                       ![sub.node].parent = new_node,
                       ![new_node].level = sub.N[old_root].level + 1,
                       ![new_node].awnn = sub.N[old_root].awnn],
   root |-> new_node, Q |-> sub.Q]

\* lines 45-53: with no free leaf the tree is doubled
double(N, rt, Q) ==
  IF Q # << >> THEN [N |-> N, root |-> rt, Q |-> Q]
  ELSE double_right(
         full_sub_tree([Append(N, NewTreeNode(0)) EXCEPT ![Len(N) + 1].left = rt,
                                                         ![rt].parent = Len(N) + 1],
                       Q, N[rt].level + 1),
         rt, Len(N) + 1)

\* lines 63-66 and 96-99: the disks are added to the index of every
\* ancestor
RECURSIVE add_to_ancestors(_, _, _)
add_to_ancestors(N, n, disks) ==
  IF N[n].parent = None THEN N
  ELSE add_to_ancestors([N EXCEPT ![N[n].parent].awnn = @ \cup disks], N[n].parent, disks)

\* lines 54-66: the first free leaf takes the component
place_component(g, component) ==
  [N |-> add_to_ancestors([g.N EXCEPT ![Head(g.Q)].has = TRUE,
                                      ![Head(g.Q)].component = component,
                                      ![Head(g.Q)].awnn = @ \cup DiskSet(component)],
                          Head(g.Q), DiskSet(component)),
   root |-> g.root, Q |-> Tail(g.Q), err |-> "none"]

\* ComponentTree.insert_component (lines 43-66)
insert_component(N, rt, Q, component) ==
  place_component(double(N, rt, Q), component)

\* max(..., key=lambda node: len(node._component)) (line 89): the first
\* leaf of the list with a longest component
RECURSIVE largest_of(_, _, _)
largest_of(N, leafs, best) ==
  IF leafs = << >> THEN best
  ELSE largest_of(N, Tail(leafs),
                  IF Len(N[Head(leafs)].component) > Len(N[best].component)
                    THEN Head(leafs) ELSE best)

\* lines 113-118: up to the lowest common ancestor the disks are added on
\* the side of the largest component and deleted on the other side
RECURSIVE move_up(_, _, _, _)
move_up(N, node_l, node_o, disks) ==
  IF node_l = node_o THEN N
  ELSE move_up([N EXCEPT ![node_l].awnn = @ \cup disks, ![node_o].awnn = @ \ disks],
               N[node_l].parent, N[node_o].parent, disks)

\* lines 107-122 for one intersected leaf beside the largest
merge_leaf(st, largest, other) ==
  [N |-> [move_up([st.N EXCEPT ![largest].component = @ \o st.N[other].component],
                  largest, other, DiskSet(st.N[other].component))
            EXCEPT ![other].has = FALSE, ![other].component = << >>],
   Q |-> Append(st.Q, other)]

\* the loop of lines 104-122
RECURSIVE merge_leafs(_, _, _)
merge_leafs(st, largest, leafs) ==
  IF leafs = << >> THEN st
  ELSE IF Head(leafs) = largest THEN merge_leafs(st, largest, Tail(leafs))
  ELSE merge_leafs(merge_leaf(st, largest, Head(leafs)), largest, Tail(leafs))

\* lines 89-122: the disk joins the largest intersected component, which
\* then takes over the other intersected components
insert_into(N, rt, Q, disk, leafs, largest) ==
  [N |-> merge_leafs([N |-> add_to_ancestors([N EXCEPT ![largest].component = Append(@, disk),
                                                       ![largest].awnn = @ \cup { disk }],
                                             largest, { disk }),
                      Q |-> Q], largest, leafs).N,
   root |-> rt,
   Q |-> merge_leafs([N |-> N, Q |-> Q], largest, leafs).Q,
   err |-> "none"]

\* ComponentTree.insert_disk (lines 82-122) once the leaves are known
insert_disk_found(N, rt, Q, disk, found) ==
  IF found.err # "none" THEN [N |-> N, root |-> rt, Q |-> Q, err |-> found.err]
  ELSE IF found.list = << >> THEN insert_component(N, rt, Q, << disk >>)
  ELSE insert_into(N, rt, Q, disk, found.list,
                   largest_of(N, Tail(found.list), Head(found.list)))

\* ComponentTree.insert_disk (lines 82-122)
insert_disk(N, rt, Q, disk) ==
  insert_disk_found(N, rt, Q, disk, query_nodes(N, rt, disk))

\* a caller inserts a disk that has not been inserted yet
InsertDisk(disk) ==
  /\ Len(ct_inserted) < MaxDisks
  /\ \A i \in 1..Len(ct_inserted) : ct_inserted[i] # disk
  /\ ct_err = "none"
  /\ ct_nodes' = insert_disk(ct_nodes, ct_root, ct_leafQueue, disk).N
  /\ ct_root' = insert_disk(ct_nodes, ct_root, ct_leafQueue, disk).root
  /\ ct_leafQueue' = insert_disk(ct_nodes, ct_root, ct_leafQueue, disk).Q
  /\ ct_err' = insert_disk(ct_nodes, ct_root, ct_leafQueue, disk).err
  /\ ct_inserted' = Append(ct_inserted, disk)
  /\ UNCHANGED << faces, trapezoids, line_segments, nodes, root, outer_face, bottom_above,
                  dcel_count, last_update, err, dcel_vars, split_vars, build_last,
                  fan_vars, ds_vars >>

NextComponentTree == \E disk \in DiskIds : InsertDisk(disk)

\* the insert_disk calls on a ComponentTree
SpecComponentTree == Init /\ [][NextComponentTree]_vars

\* ------------------------------------------------------------ properties
Live == { trapezoids[i] : i \in 1..Len(trapezoids) }

Slots == { UR, UL, LL, LR }

\* nodes reachable from n through child references
RECURSIVE ReachFrom(_, _)
ReachFrom(frontier, seen) ==
  IF frontier = {} THEN seen
  ELSE LET kids == UNION { { nodes[n].left, nodes[n].right } \ { None } : n \in frontier }
       IN ReachFrom(kids \ (seen \cup frontier), seen \cup frontier)

Reachable == ReachFrom({ root }, {})

ReachableLeafs == { n \in Reachable : nodes[n].kind = "L" }

\* the query points: the grid points inside the bounding box
QueryPoints ==
  { Pt(x, y, 0) : x \in (bounding_box.left + 1)..(bounding_box.right - 1),
                  y \in (bounding_box.lower + 1)..(bounding_box.upper - 1) }

\* q lies on the segment s
OnSegment(q, s) ==
  /\ Cross(Seg(s).left, Seg(s).right, q) = 0
  /\ Seg(s).left.x <= q.x /\ q.x <= Seg(s).right.x
  /\ (Seg(s).left.y <= q.y /\ q.y <= Seg(s).right.y) \/ (Seg(s).right.y <= q.y /\ q.y <= Seg(s).left.y)

Inserted == { line_segments[i] : i \in 1..Len(line_segments) }

FreeQueryPoints == { q \in QueryPoints : \A s \in Inserted : ~OnSegment(q, s) }

\* the trapezoid t geometrically contains q
Contains(t, q) ==
  /\ HOrient(q, faces[t].left_point) # "LEFT"
  /\ HOrient(q, faces[t].right_point) = "LEFT"
  /\ VOrient(q, faces[t].top_line_segment) = "BELOW"
  /\ VOrient(q, faces[t].bottom_line_segment) = "ABOVE"

\* C1: the neighbor references of live trapezoids are symmetric: if slot k
\* of a live trapezoid T references U, the mirror slot of U references T
C1_NeighborSymmetry ==
  \A t \in Live : \A k \in Slots :
    faces[t].neighbors[k] # None => faces[faces[t].neighbors[k]].neighbors[Mirror(k)] = t

\* the last insertion crossed three or more trapezoids and a shrunk inner
\* one is live with neighbors on both sides
C1_Witness ==
  /\ Len(last_update.unvalid) >= 3
  /\ \E i \in 2..(Len(last_update.unvalid) - 1) :
       LET t == last_update.unvalid[i]
       IN t \in Live /\ (faces[t].neighbors[LL] # None \/ faces[t].neighbors[UL] # None)
                     /\ (faces[t].neighbors[LR] # None \/ faces[t].neighbors[UR] # None)

\* C2: every live trapezoid has a leaf whose trapezoid it is, and every
\* leaf reachable from the root references a trapezoid that points back
C2_LeafLinkage ==
  /\ \A t \in Live : /\ faces[t].search_leaf # None
                     /\ nodes[faces[t].search_leaf].kind = "L"
                     /\ nodes[faces[t].search_leaf].face = t
  /\ \A l \in ReachableLeafs : /\ nodes[l].face # None
                               /\ faces[nodes[l].face].search_leaf = l

\* the last insertion crossed several trapezoids and kept the first one
\* as left remainder, under a fresh leaf that is reachable
C2_Witness ==
  /\ Len(last_update.unvalid) >= 2
  /\ last_update.new[1] # None
  /\ last_update.new[1] \in Live
  /\ faces[last_update.new[1]].search_leaf \in ReachableLeafs

\* C3: the trapezoids referenced by the leaves reachable from the root are
\* exactly the live trapezoids
C3_ReachableIsLive ==
  { nodes[l].face : l \in ReachableLeafs } = Live

\* the last insertion crossed three or more trapezoids, retired the first
\* one and kept an inner one
C3_Witness ==
  /\ Len(last_update.unvalid) >= 3
  /\ last_update.new[1] = None
  /\ last_update.unvalid[1] \notin Live
  /\ last_update.unvalid[2] \in Live

\* C4: no neighbor slot of a live trapezoid references a trapezoid that is
\* not live
C4_NeighborsLive ==
  \A t \in Live : \A k \in Slots :
    faces[t].neighbors[k] # None => faces[t].neighbors[k] \in Live

\* the last insertion crossed several trapezoids, retired the last one
\* (shared right endpoint) and discarded one of its two pieces
C4_Witness ==
  /\ Len(last_update.unvalid) >= 2
  /\ last_update.new[5] = None
  /\ Last(last_update.unvalid) \notin Live
  /\ \E t \in 1..Len(faces) : t \notin Live /\ faces[t].search_leaf = None

\* C5: the root has no parents; every parent listed by a reachable node
\* holds it in a child slot; every reachable inner node is listed in the
\* parents of both of its children
C5_Parentage ==
  /\ nodes[root].parents = <<>>
  /\ \A n \in Reachable :
       /\ \A i \in 1..Len(nodes[n].parents) :
            LET p == nodes[n].parents[i] IN nodes[p].left = n \/ nodes[p].right = n
       /\ nodes[n].kind # "L" =>
            /\ nodes[n].left # None /\ InList(nodes[nodes[n].left].parents, n)
            /\ nodes[n].right # None /\ InList(nodes[nodes[n].right].parents, n)

\* some reachable node has two parents (the structure is a proper DAG)
C5_Witness ==
  \E n \in Reachable : Len(nodes[n].parents) >= 2

\* VDSearchStructure's root.search(point) as a plain query
QuerySearch(q) == Search(nodes, root, q, None, Len(nodes) + 1)

\* C6: for every query point of the box that lies on no inserted segment,
\* the search from the root returns a live trapezoid that contains it
C6_SearchCorrect ==
  \A q \in FreeQueryPoints :
    LET r == QuerySearch(q)
    IN r.err = "none" /\ r.face \in Live /\ Contains(r.face, q)

\* three segments are inserted and a query ends in a trapezoid bounded by
\* inserted segments above and below
C6_Witness ==
  /\ Len(line_segments) = MaxInserts
  /\ \E q \in FreeQueryPoints :
       LET r == QuerySearch(q)
       IN r.err = "none" /\ faces[r.face].top_line_segment \in Inserted
                         /\ faces[r.face].bottom_line_segment \in Inserted

\* the face a segment carries as above_face: the bottom side of the box
\* carries what VerticalDecomposition.__init__ stored (line 131), a segment
\* of the subdivision the incident face set by dcel_prepocessing (line 103)
AboveFace(seg) ==
  IF seg = BottomSeg THEN bottom_above
  ELSE IF seg = TopSeg THEN None
  ELSE IF Pool[seg].above = "outer" THEN outer_face
  ELSE InnerFace(Pool[seg].above)

\* VDSearchStructure.query(point)
Query(q) == AboveFace(faces[QuerySearch(q).face].bottom_line_segment)

\* q lies vertically above the segment s, within its extent
AboveSeg(q, s) ==
  /\ HOrient(q, Seg(s).left) # "LEFT"
  /\ HOrient(q, Seg(s).right) = "LEFT"
  /\ VOrient(q, s) = "ABOVE"

SegmentsBelow(q) == { s \in Inserted : AboveSeg(q, s) }

\* twice the signed area that tells whether s passes above u at abscissa x
\* (positive), below (negative) or through the same point (zero)
HeightCmp(s, u, x) ==
  Sign(  (Seg(s).left.y * (Seg(s).right.x - Seg(s).left.x)
            + (x - Seg(s).left.x) * (Seg(s).right.y - Seg(s).left.y))
           * (Seg(u).right.x - Seg(u).left.x)
       - (Seg(u).left.y * (Seg(u).right.x - Seg(u).left.x)
            + (x - Seg(u).left.x) * (Seg(u).right.y - Seg(u).left.y))
           * (Seg(s).right.x - Seg(s).left.x))

\* s is nearer to q than u among the segments below q
NearerBelow(q, s, u) ==
  HeightCmp(s, u, q.x) > 0 \/ (HeightCmp(s, u, q.x) = 0 /\ SlopeCmp(s, u) > 0)

\* the face of the subdivision that contains q: the face above the nearest
\* segment below q, the outer face of the DCEL if no segment lies below
ContainingFace(q) ==
  IF SegmentsBelow(q) = {} THEN outer_face
  ELSE AboveFace(CHOOSE s \in SegmentsBelow(q) :
                   \A u \in SegmentsBelow(q) \ { s } : NearerBelow(q, s, u))

C8_TrapezoidBound ==
  Len(trapezoids) <= 4 * Len(line_segments) + 1

\* three segments are inserted and each insertion added three trapezoids
C8_Witness ==
  /\ Len(line_segments) = 3
  /\ Len(trapezoids) = 10
  /\ err = "none"

\* the step is an insertion whose segment lay inside one trapezoid
SingleStep ==
  /\ Len(line_segments') = Len(line_segments) + 1
  /\ err' = "none"
  /\ Len(last_update'.unvalid) = 1

\* a piece created by the step: fresh, live afterwards, with the given sides
Piece(t, top, bottom, left_point, right_point) ==
  /\ t # None /\ t > Len(faces) /\ t \notin Live /\ t \in Live'
  /\ faces'[t].top_line_segment = top
  /\ faces'[t].bottom_line_segment = bottom
  /\ faces'[t].left_point = left_point
  /\ faces'[t].right_point = right_point

\* the single-trapezoid case on one step: old is the replaced trapezoid, s
\* the inserted segment and new the list update returned
SingleCase(old, s, new) ==
  /\ Len(new) = 4
  /\ old \in Live /\ old \notin Live'
  /\ Piece(new[2], faces[old].top_line_segment, s, Seg(s).left, Seg(s).right)
  /\ Piece(new[3], s, faces[old].bottom_line_segment, Seg(s).left, Seg(s).right)
  /\ (new[1] = None) <=> PointEq(Seg(s).left, faces[old].left_point)
  /\ new[1] # None => Piece(new[1], faces[old].top_line_segment, faces[old].bottom_line_segment,
                            faces[old].left_point, Seg(s).left)
  /\ (new[4] = None) <=> PointEq(Seg(s).right, faces[old].right_point)
  /\ new[4] # None => Piece(new[4], faces[old].top_line_segment, faces[old].bottom_line_segment,
                            Seg(s).right, faces[old].right_point)
  /\ Live' = (Live \ { old }) \cup ({ new[i] : i \in 1..4 } \ { None })
  /\ Len(trapezoids') = Cardinality(Live')
  /\ (Len(line_segments) = 0 /\ new[1] # None /\ new[4] # None) => Len(trapezoids') = 4
  /\ new[1] = None =>
       /\ faces'[new[2]].neighbors[UL] = faces[old].neighbors[UL]
       /\ faces'[new[3]].neighbors[LL] = faces[old].neighbors[LL]
       /\ faces[old].neighbors[UL] # None =>
            faces'[faces[old].neighbors[UL]].neighbors[UR] = new[2]
       /\ faces[old].neighbors[LL] # None =>
            faces'[faces[old].neighbors[LL]].neighbors[LR] = new[3]
  /\ new[4] = None =>
       /\ faces'[new[2]].neighbors[UR] = faces[old].neighbors[UR]
       /\ faces'[new[3]].neighbors[LR] = faces[old].neighbors[LR]
       /\ faces[old].neighbors[UR] # None =>
            faces'[faces[old].neighbors[UR]].neighbors[UL] = new[2]
       /\ faces[old].neighbors[LR] # None =>
            faces'[faces[old].neighbors[LR]].neighbors[LL] = new[3]

\* C9: an insertion whose segment lies inside one trapezoid replaces that
\* trapezoid by a piece above and a piece below the segment, a left
\* remainder exactly when the left endpoint differs from the trapezoid's
\* left point and a right remainder exactly when the right endpoints
\* differ; from the seed with both endpoints interior four trapezoids are
\* live; the pieces above and below take over the neighbors of an omitted side
C9_SingleTrapezoidCase ==
  [][SingleStep => SingleCase(last_update'.unvalid[1], Last(line_segments'), last_update'.new)]_vars

\* the last insertion lay inside one trapezoid whose left point was the
\* segment's left endpoint; no left remainder was made and the piece above
\* took over an upper left neighbor
C9_Witness ==
  /\ err = "none"
  /\ Len(last_update.unvalid) = 1
  /\ last_update.new[1] = None
  /\ last_update.new[4] # None
  /\ faces[last_update.new[2]].neighbors[UL] # None
  /\ faces[faces[last_update.new[2]].neighbors[UL]].neighbors[UR] = last_update.new[2]

\* s and t are different segments with the same left endpoint
SharesLeft(s, t) == s # t /\ PointEq(Seg(s).left, Seg(t).left)

\* the steeper of two segments with the same left endpoint
Steeper(s, t) == IF SlopeCmp(s, t) > 0 THEN s ELSE t

\* the trapezoid f starts at the common left endpoint on the side of t on
\* which s leaves that endpoint
CorrectSide(f, s, t) ==
  /\ f \in Live
  /\ PointEq(faces[f].left_point, Seg(t).left)
  /\ IF SlopeCmp(s, t) > 0 THEN faces[f].bottom_line_segment = t
                           ELSE faces[f].top_line_segment = t

\* every query point above both s and t is located afterwards in a live
\* trapezoid whose bottom is the steeper of the two
LocatedAboveSteeper(s, t) ==
  \A q \in QueryPoints :
    (AboveSeg(q, s) /\ AboveSeg(q, t)) =>
      /\ QuerySearch(q)'.err = "none"
      /\ QuerySearch(q)'.face \in Live'
      /\ faces'[QuerySearch(q)'.face].bottom_line_segment = Steeper(s, t)

\* the step inserts s into a decomposition that holds t, and both have the
\* same left endpoint
SharedLeftStep(s, t) ==
  /\ line_segments' = Append(line_segments, s)
  /\ t \in Inserted
  /\ SharesLeft(s, t)

\* C10: when a segment is inserted that shares its left endpoint with an
\* inserted one, the search for its left endpoint ends in the trapezoid on
\* the side of the first segment given by the slopes, the insertion
\* succeeds there, and when these are the only two segments every query
\* point above both is then located in the trapezoid whose bottom is the
\* steeper of the two
C10_SharedLeftEndpoint ==
  [][\A s, t \in PoolIds :
       SharedLeftStep(s, t) =>
         /\ err' = "none"
         /\ Search(nodes, root, Seg(s).left, s, Len(nodes) + 1).err = "none"
         /\ CorrectSide(Search(nodes, root, Seg(s).left, s, Len(nodes) + 1).face, s, t)
         /\ last_update'.unvalid[1] = Search(nodes, root, Seg(s).left, s, Len(nodes) + 1).face
         /\ Len(line_segments) = 1 => LocatedAboveSteeper(s, t)]_vars

\* two segments with the same left endpoint are the inserted ones, the
\* steeper one was inserted second and a query point above both is located
\* in the trapezoid above it
C10_Witness ==
  /\ err = "none"
  /\ Len(line_segments) = 2
  /\ SharesLeft(line_segments[2], line_segments[1])
  /\ SlopeCmp(line_segments[2], line_segments[1]) > 0
  /\ \E q \in QueryPoints :
       /\ AboveSeg(q, line_segments[1]) /\ AboveSeg(q, line_segments[2])
       /\ faces[QuerySearch(q).face].bottom_line_segment = line_segments[2]

\* the nodes a search from n visits, in the way Search descends
RECURSIVE SearchVisits(_, _, _, _, _)
SearchVisits(N, n, p, probe, fuel) ==
  IF n = None \/ fuel = 0 THEN {}
  ELSE IF N[n].kind = "L" THEN { n }
  ELSE IF N[n].kind = "X" THEN
    { n } \cup SearchVisits(N, IF HOrient(p, N[n].point) = "LEFT" THEN N[n].left ELSE N[n].right,
                            p, probe, fuel - 1)
  ELSE IF YNodeSide(p, probe, N[n].line_segment) = "upper"
    THEN { n } \cup SearchVisits(N, N[n].right, p, probe, fuel - 1)
  ELSE IF YNodeSide(p, probe, N[n].line_segment) = "lower"
    THEN { n } \cup SearchVisits(N, N[n].left, p, probe, fuel - 1)
  ELSE { n }

\* the y-nodes a plain query for q visits whose segment passes through q
OnLineNodes(q) ==
  { n \in SearchVisits(nodes, root, q, None, Len(nodes) + 1) :
      nodes[n].kind = "Y" /\ VOrient(q, nodes[n].line_segment) = "ON" }

\* C11 as stated: a plain query that meets a y-node whose segment passes
\* through the query point reports an error
C11_OnLineQueryErrors ==
  \A q \in QueryPoints : OnLineNodes(q) # {} => QuerySearch(q).err # "none"

\* C11 amended: a plain query that meets a y-node whose segment passes
\* through the query point raises nothing; it continues in the upper child
\* of that node and ends in a live trapezoid that has the point on or above
\* its bottom segment and below its top segment
C11_OnLineQueryGoesUp ==
  \A q \in QueryPoints :
    OnLineNodes(q) # {} =>
      /\ QuerySearch(q).err = "none"
      /\ \A n \in OnLineNodes(q) :
           nodes[n].right \in SearchVisits(nodes, root, q, None, Len(nodes) + 1)
      /\ QuerySearch(q).face \in Live
      /\ HOrient(q, faces[QuerySearch(q).face].left_point) # "LEFT"
      /\ HOrient(q, faces[QuerySearch(q).face].right_point) = "LEFT"
      /\ VOrient(q, faces[QuerySearch(q).face].top_line_segment) = "BELOW"
      /\ VOrient(q, faces[QuerySearch(q).face].bottom_line_segment) \in { "ABOVE", "ON" }

\* a plain query for an inner point of an inserted segment met the y-node
\* of that segment and ended in the trapezoid above the segment
C11_Witness ==
  \E q \in QueryPoints : \E n \in OnLineNodes(q) :
    /\ OnSegment(q, nodes[n].line_segment)
    /\ ~PointEq(q, Seg(nodes[n].line_segment).left)
    /\ QuerySearch(q).err = "none"
    /\ faces[QuerySearch(q).face].bottom_line_segment = nodes[n].line_segment

\* the requested points as a set
RequestedPoints == { requested[k] : k \in 1..Len(requested) }

\* the segments a-b and c-d cross in their interiors
PointsCross(a, b, c, d) ==
  /\ Sign(Cross(a, b, c)) * Sign(Cross(a, b, d)) < 0
  /\ Sign(Cross(c, d, a)) * Sign(Cross(c, d, b)) < 0

\* the edges asked for join two different points and no two of them cross
PlanarLinked ==
  /\ \A e \in linked : Cardinality(e) = 2
  /\ \A e, f \in linked : \A a, b \in e : \A c, d \in f :
       (a # b /\ c # d) => ~PointsCross(a, b, c, d)

\* the requested points that the edges asked for connect to the points of seen
RECURSIVE LinkedFrom(_)
LinkedFrom(seen) ==
  IF \E e \in linked : e \cap seen # {} /\ ~(e \subseteq seen)
    THEN LinkedFrom(seen \cup UNION { e \in linked : e \cap seen # {} })
    ELSE seen

\* the subdivision the caller asked for is connected
ConnectedLinked ==
  requested # <<>> /\ LinkedFrom({ requested[1] }) = RequestedPoints

\* the number of undirected edges: the pairs of twin half-edges in edges()
UndirectedEdges ==
  Cardinality({ k \in 1..Len(d_edges) : d_half[d_edges[k]].twin # d_edges[k] }) \div 2

\* C12: once a caller has built a connected planar subdivision by add_vertex
\* and add_edge calls, the numbers V of vertices, E of undirected edges and
\* F of faces of the DCEL satisfy V - E + F = 2
C12_Euler ==
  (PlanarLinked /\ ConnectedLinked) =>
    Len(d_vertices) - UndirectedEdges + Len(d_faces) = 2

\* C13: add_vertex with a point that an earlier add_vertex call has made a
\* vertex of returns None without raising, and no two vertices of the list
\* share a point
C13_DuplicateVertexRejected ==
  /\ (d_last.op = "add_vertex" /\ d_last.known) =>
       (d_last.err = "none" /\ d_last.ret = "None")
  /\ \A k, l \in 1..Len(d_vertices) :
       k # l => ~PointEq(d_vertices[k].point, d_vertices[l].point)

\* the sides of the triangle of Scenario C, the point inside and the point
\* outside it
TriangleSides ==
  { { Pt(0, 0, 201), Pt(10, 0, 202) }, { Pt(10, 0, 202), Pt(5, 10, 203) },
    { Pt(5, 10, 203), Pt(0, 0, 201) } }

InnerPoint == Pt(5, 3, 204)

OuterPoint == Pt(20, 3, 205)

\* the last call was add_edge between the vertex inside the triangle, which
\* has been closed before, and the vertex outside it
AcrossTriangle ==
  /\ d_last.op = "add_edge"
  /\ TriangleSides \subseteq linked
  /\ PointPair(d_last.edge[1], d_last.edge[2]) = { { InnerPoint, OuterPoint } }

\* C15: add_edge between two vertices whose faces differ (one lies inside
\* the closed triangle, the other outside) reports an error and links no
\* half-edge pair between them
C15_DifferentFacesRejected ==
  AcrossTriangle =>
    /\ d_last.err # "none"
    /\ \A k \in 1..Len(d_edges) :
         ~(PointEq(d_half[d_edges[k]].origin, InnerPoint)
           /\ PointEq(d_half[d_half[d_edges[k]].twin].origin, OuterPoint))

\* the number of connected parts of the subdivision the caller asked for
Components == Cardinality({ LinkedFrom({ q }) : q \in RequestedPoints })

\* C18: every add_edge that closes a boundary cycle adds one face and no
\* other one adds a face: the DCEL has one face more than the edges asked
\* for close cycles, and the triangle built by three add_vertex and three
\* add_edge calls has two faces
C18_FaceCount ==
  PlanarLinked =>
    /\ Len(d_faces) = 1 + Cardinality(linked) - Len(requested) + Components
    /\ (Len(requested) = 3 /\ linked = TriangleSides) => Len(d_faces) = 2

\* C19: an add_edge call with an index that is negative or not below the
\* number of vertices returns without an error and changes nothing of the
\* DCEL
C19_ImpossibleIndexNoOp ==
  [][(/\ d_last'.op = "add_edge"
      /\ \/ d_last'.edge[1] < 0
         \/ d_last'.edge[1] >= Len(d_vertices)
         \/ d_last'.edge[2] < 0
         \/ d_last'.edge[2] >= Len(d_vertices))
       => /\ d_last'.err = "none"
          /\ d_last'.ret = "None"
          /\ UNCHANGED << d_vertices, d_edges, d_faces, d_half >>]_vars

\* the last call was an add_edge with an index that no add_vertex call has
\* handed out, and it returned without an error
C19_Witness ==
  /\ d_last.op = "add_edge"
  /\ ~d_last.known
  /\ d_last.err = "none"
  /\ requested # <<>>

\* twice the signed area of the polygon with the corners c, positive for a
\* counter-clockwise polygon
RECURSIVE SignedArea2(_, _)
SignedArea2(c, k) ==
  IF k > Len(c) THEN 0
  ELSE c[k].x * c[(k % Len(c)) + 1].y - c[(k % Len(c)) + 1].x * c[k].y
         + SignedArea2(c, k + 1)

\* the cycle of the new face and the other one of the two cycles started
\* by the new half-edges
NewCycle == CycleOf(split_edge, split_last.outer_component)

OtherCycle == CycleOf(split_edge, TwinOf(split_last.outer_component))

SidePoint(t, slot) ==
  IF slot \in { UL, LL } THEN faces[t].left_point ELSE faces[t].right_point

\* the endpoint, on the side of the slot, of the segment bounding t above
\* (upper slots) or below (lower slots)
SideEndpoint(t, slot) ==
  CASE slot = UL -> Seg(faces[t].top_line_segment).left
    [] slot = UR -> Seg(faces[t].top_line_segment).right
    [] slot = LL -> Seg(faces[t].bottom_line_segment).left
    [] OTHER -> Seg(faces[t].bottom_line_segment).right

\* the point of t on the side of the slot lies on the edge of the box
OnBoxEdge(t, slot) ==
  IF slot \in { UL, LL }
    THEN SidePoint(t, slot).x = bounding_box.left
    ELSE SidePoint(t, slot).x = bounding_box.right

LeftToRight ==
  { k \in 1..Len(d_edges) :
      /\ d_half[d_edges[k]].twin # d_edges[k]
      /\ HOrient(d_half[d_edges[k]].origin,
                 d_half[d_half[d_edges[k]].twin].origin) = "LEFT" }

\* C21: dcel_prepocessing returns one segment for every undirected edge of
\* the DCEL and no other one (none at all for a DCEL without edges), each
\* with the incident face of the half-edge directed from its left to its
\* right endpoint as above_face
C21_OneSegmentPerEdge ==
  d_segments.called =>
    /\ d_segments.err = "none"
    /\ Len(d_segments.segments) = UndirectedEdges
    /\ \A k \in LeftToRight :
         \E i \in 1..Len(d_segments.segments) :
           /\ PointEq(d_segments.segments[i].left, d_half[d_edges[k]].origin)
           /\ PointEq(d_segments.segments[i].right, d_half[d_half[d_edges[k]].twin].origin)
           /\ d_segments.segments[i].above_face = d_half[d_edges[k]].incident_face

\* the decomposition and the search structure that inserting the segments
\* ls one by one into a newly constructed facade gives
RECURSIVE FreshInserts(_, _, _)
FreshInserts(st, ls, k) ==
  IF k > Len(ls) THEN st
  ELSE FreshInserts(InsertOp(st.F, st.live, st.N, st.root, ls[k]), ls, k + 1)

FreshStructure(ls) ==
  FreshInserts([F |-> SeedFaces, live |-> << 1 >>, N |-> SeedNodes, root |-> 1], ls, 1)

\* C22: after build_vertical_decomposition(segments), and after the inserts
\* that follow it, the trapezoid map and the search structure are those of
\* a fresh facade into which the segments of the list were inserted in
\* order: the call inserted exactly its argument and nothing inserted
\* before it has left a trace
C22_BuildFromScratch ==
  build_last.called =>
    /\ SubSeq(line_segments, 1, Len(build_last.segments)) = build_last.segments
    /\ faces = FreshStructure(line_segments).F
    /\ trapezoids = FreshStructure(line_segments).live
    /\ nodes = FreshStructure(line_segments).N
    /\ root = FreshStructure(line_segments).root

\* build was called with two segments on a facade that held three
\* segments, and nothing has been inserted since
C22_Witness ==
  /\ build_last.called
  /\ build_last.before = 3
  /\ Len(build_last.segments) = 2
  /\ line_segments = build_last.segments

\* the later and the earlier of two points in the order of the sheared
\* plane (by x, then by y)
LexMax(p, q) == IF HOrient(p, q) = "LEFT" THEN q ELSE p

LexMin(p, q) == IF HOrient(p, q) = "LEFT" THEN p ELSE q

\* where s runs relative to u between the walls through a and b, a left of
\* b and both segments spanning the strip: above (positive) or below
\* (negative); segments that meet at both walls meet in an endpoint they
\* share, and the slopes decide
SideBetween(s, u, a, b) ==
  IF HeightCmp(s, u, a.x) # 0 THEN HeightCmp(s, u, a.x)
  ELSE IF HeightCmp(s, u, b.x) # 0 THEN HeightCmp(s, u, b.x)
  ELSE IF PointEq(Seg(s).left, Seg(u).left) THEN Sign(SlopeCmp(s, u))
  ELSE 0 - Sign(SlopeCmp(s, u))

\* the segment s runs through the interior of the trapezoid with the
\* record f: their extents overlap in a strip, and there s lies below the
\* top and above the bottom of f
Crosses(f, s) ==
  /\ HOrient(LexMax(Seg(s).left, f.left_point), LexMin(Seg(s).right, f.right_point)) = "LEFT"
  /\ SideBetween(s, f.top_line_segment, LexMax(Seg(s).left, f.left_point),
                 LexMin(Seg(s).right, f.right_point)) < 0
  /\ SideBetween(s, f.bottom_line_segment, LexMax(Seg(s).left, f.left_point),
                 LexMin(Seg(s).right, f.right_point)) > 0

\* the step is an insert call that got as far as update
UpdateStep == Len(line_segments') = Len(line_segments) + 1

\* C23: the walk of update ends without stepping onto a null neighbor, and
\* the invalidated list it returns holds exactly the live trapezoids whose
\* interior the new segment crosses, each once, from left to right, the
\* last one being the first whose right point is not left of the right
\* endpoint of the segment
C23_WalkCollectsCrossed ==
  [][UpdateStep =>
       /\ err' = "none"
       /\ { last_update'.unvalid[i] : i \in 1..Len(last_update'.unvalid) }
            = { t \in Live : Crosses(faces[t], Last(line_segments')) }
       /\ \A i \in 1..Len(last_update'.unvalid) :
            /\ \A j \in (i + 1)..Len(last_update'.unvalid) :
                 HOrient(faces[last_update'.unvalid[i]].left_point,
                         faces[last_update'.unvalid[j]].left_point) = "LEFT"
            /\ (HOrient(Seg(Last(line_segments')).right,
                        faces[last_update'.unvalid[i]].right_point) = "RIGHT")
                 <=> i < Len(last_update'.unvalid)]_vars

\* the last insertion walked from the trapezoid of the left endpoint over
\* three more trapezoids
C23_Witness ==
  /\ Len(last_update.unvalid) >= 4
  /\ Len(line_segments) >= 3
  /\ err = "none"

\* C24: the live trapezoids partition the box: every grid point of the box
\* that lies on no inserted segment is contained in exactly one live
\* trapezoid (points on one vertical line with an endpoint are placed by
\* their y, as the shear does), and no inserted segment runs through the
\* interior of a live trapezoid
C24_Partition ==
  /\ \A q \in FreeQueryPoints : Cardinality({ t \in Live : Contains(t, q) }) = 1
  /\ \A t \in Live : \A s \in Inserted : ~Crosses(faces[t], s)

\* the last of three insertions crossed three trapezoids or more, and a
\* free grid point lies in a live trapezoid on the vertical line through
\* that trapezoid's left point
C24_Witness ==
  /\ Len(line_segments) >= 3
  /\ Len(last_update.unvalid) >= 3
  /\ \E q \in FreeQueryPoints : \E t \in Live :
       Contains(t, q) /\ q.x = faces[t].left_point.x

\* the trapezoids of the second list update returned in the step
NewSet == { last_update'.new[i] : i \in 1..Len(last_update'.new) } \ { None }

UnvalidSet == { last_update'.unvalid[i] : i \in 1..Len(last_update'.unvalid) }

NotEndpoint(p, s) == ~PointEq(p, Seg(s).left) /\ ~PointEq(p, Seg(s).right)

\* the live trapezoid t is crossed by s and holds the left endpoint of s
FirstCrossed(t, s) ==
  Crosses(faces[t], s) /\ HOrient(Seg(s).left, faces[t].left_point) # "LEFT"

\* the boundary points of the trapezoids crossed by s that the update
\* passes: the right point of the first one, the left point of the others
BoundaryPoints(s) ==
  { faces[t].right_point : t \in { u \in Live : FirstCrossed(u, s) } }
    \cup { faces[t].left_point :
             t \in { u \in Live : Crosses(faces[u], s) /\ ~FirstCrossed(u, s) } }

\* such a boundary point lies on the supporting line of s and is no
\* endpoint of s
BoundaryOnLine(s) ==
  \E p \in BoundaryPoints(s) : VOrient(p, s) = "ON" /\ NotEndpoint(p, s)

\* such a boundary point lies on s itself, between its endpoints
BoundaryOnSegment(s) ==
  \E p \in BoundaryPoints(s) :
    /\ VOrient(p, s) = "ON"
    /\ HOrient(Seg(s).left, p) = "LEFT"
    /\ HOrient(p, Seg(s).right) = "LEFT"

\* C26 as stated: when a boundary point of a crossed trapezoid (the right
\* point of the first, the left point of a later one) lies on the
\* supporting line of the new segment and is no endpoint of it, update
\* raises the consistency error (RuntimeError) and returns nothing
C26_RaisesOnLine ==
  [][(UpdateStep /\ BoundaryOnLine(Last(line_segments')))
       => (err' = "RuntimeError" /\ last_update'.new = <<>>)]_vars

\* C26, amended: when such a boundary point lies on the new segment itself,
\* update returns nothing: it raises RuntimeError, or AttributeError when
\* the walk stepped onto a missing lower right neighbor, the segment being
\* already appended to line_segments; when the only such points lie on the
\* supporting line beyond the segment, update completes normally
C26_RaisesOnSegment ==
  [][UpdateStep =>
       /\ BoundaryOnSegment(Last(line_segments'))
            => /\ err' \in {"RuntimeError", "AttributeError"}
               /\ last_update'.new = <<>>
               /\ last_update'.unvalid = <<>>
       /\ (BoundaryOnLine(Last(line_segments')) /\ ~BoundaryOnSegment(Last(line_segments')))
            => err' = "none"]_vars

\* an update has raised RuntimeError with a segment running through an
\* endpoint of an inserted segment
C26_Witness ==
  /\ err = "RuntimeError"
  /\ Len(line_segments) >= 2
  /\ Last(line_segments) \in DegenerateIds
  /\ \E i \in 1..(Len(line_segments) - 1) :
       \E p \in {Seg(line_segments[i]).left, Seg(line_segments[i]).right} :
         /\ VOrient(p, Last(line_segments)) = "ON"
         /\ HOrient(Seg(Last(line_segments)).left, p) = "LEFT"
         /\ HOrient(p, Seg(Last(line_segments)).right) = "LEFT"

\* the x-nodes of the search structure
XNodes == { n \in Reachable : nodes[n].kind = "X" }

\* C27: at an x-node the search continues in the left child exactly when
\* the searched point is strictly left of the node's point (by x, then by
\* y), and in the right child when it is right of it or coincides with it
C27_XNodeDirection ==
  \A n \in XNodes : \A q \in QueryPoints :
    Search(nodes, n, q, None, Len(nodes) + 1)
      = IF q.x < nodes[n].point.x \/ (q.x = nodes[n].point.x /\ q.y < nodes[n].point.y)
          THEN Search(nodes, nodes[n].left, q, None, Len(nodes) + 1)
          ELSE Search(nodes, nodes[n].right, q, None, Len(nodes) + 1)

\* a query from the root for the point of an x-node met that node and went
\* on in its right child, where the left child leads to another trapezoid;
\* a query for the point just below it met the node and went on in the
\* left child
C27_Witness ==
  \E n \in XNodes : \E q, b \in QueryPoints :
    /\ PointEq(q, nodes[n].point)
    /\ n \in SearchVisits(nodes, root, q, None, Len(nodes) + 1)
    /\ nodes[n].right \in SearchVisits(nodes, root, q, None, Len(nodes) + 1)
    /\ Search(nodes, nodes[n].left, q, None, Len(nodes) + 1)
         # Search(nodes, nodes[n].right, q, None, Len(nodes) + 1)
    /\ b.x = q.x /\ b.y = q.y - 1
    /\ n \in SearchVisits(nodes, root, b, None, Len(nodes) + 1)
    /\ nodes[n].left \in SearchVisits(nodes, root, b, None, Len(nodes) + 1)

\* the segments a caller may hand to insert as the probe of the search
Probes == PoolIds \cup DegenerateIds

\* the search of insert for the left endpoint of s, started at node n
ProbeSearch(n, s) == Search(nodes, n, Seg(s).left, s, Len(nodes) + 1)

\* the y-nodes that search visits whose segment's line passes through the
\* left endpoint of s
ProbeOnLineNodes(s) ==
  { n \in SearchVisits(nodes, root, Seg(s).left, s, Len(nodes) + 1) :
      nodes[n].kind = "Y" /\ VOrient(Seg(s).left, nodes[n].line_segment) = "ON" }

\* the slope of s minus the slope of t, as a fraction of integers compared
\* by cross-multiplication (both segments run from left to right)
SlopeDiff(s, t) ==
  (Seg(s).right.y - Seg(s).left.y) * (Seg(t).right.x - Seg(t).left.x)
    - (Seg(t).right.y - Seg(t).left.y) * (Seg(s).right.x - Seg(s).left.x)

\* at the y-node n the search for the left endpoint of the probe s goes by
\* the slopes: up for a steeper probe, down for a flatter one, and an error
\* for equal slopes
RoutedBySlope(n, s) ==
  /\ SlopeDiff(s, nodes[n].line_segment) > 0
       => ProbeSearch(n, s) = ProbeSearch(nodes[n].right, s)
  /\ SlopeDiff(s, nodes[n].line_segment) < 0
       => ProbeSearch(n, s) = ProbeSearch(nodes[n].left, s)
  /\ SlopeDiff(s, nodes[n].line_segment) = 0
       => ProbeSearch(n, s).err = "AttributeError"

\* C28 as stated: the search with a probe goes by the slopes at a y-node
\* whose line passes through the searched point, and this is accepted only
\* for a probe that shares its left endpoint with the node's segment: for
\* any other probe the search reports an error
C28_OnLineOnlySharedLeft ==
  \A s \in Probes : \A n \in ProbeOnLineNodes(s) :
    /\ RoutedBySlope(n, s)
    /\ ~PointEq(Seg(s).left, Seg(nodes[n].line_segment).left)
         => ProbeSearch(root, s).err # "none"

\* C28, amended: the search with a probe goes by the slopes at every y-node
\* whose line passes through the searched point, whether or not the probe
\* shares its left endpoint with the node's segment; a probe that starts
\* in the interior of the node's segment with another slope is routed
\* without an error
C28_OnLineBySlope ==
  \A s \in Probes : \A n \in ProbeOnLineNodes(s) :
    /\ RoutedBySlope(n, s)
    /\ (SlopeDiff(s, nodes[n].line_segment) # 0
          /\ \A m \in ProbeOnLineNodes(s) : SlopeDiff(s, nodes[m].line_segment) # 0)
         => ProbeSearch(root, s).err = "none"

\* the search structure holds a segment for which one probe shares its
\* left endpoint and is steeper, one probe starts in its interior and is
\* flatter and ends in the trapezoid below it, and the segment itself as a
\* probe is refused
C28_Witness ==
  \E t \in Inserted : \E s, d \in Probes : \E n \in ProbeOnLineNodes(s) \cap ProbeOnLineNodes(d) :
    /\ err = "none"
    /\ nodes[n].line_segment = t
    /\ PointEq(Seg(s).left, Seg(t).left) /\ SlopeDiff(s, t) > 0
    /\ ProbeSearch(root, s).err = "none"
    /\ faces[ProbeSearch(root, s).face].bottom_line_segment = t
    /\ ~PointEq(Seg(d).left, Seg(t).left) /\ SlopeDiff(d, t) < 0
    /\ ProbeSearch(root, d).err = "none"
    /\ faces[ProbeSearch(root, d).face].top_line_segment = t
    /\ ProbeSearch(root, t).err = "AttributeError"

\* the node heap with one more node, a new x-node that is not linked yet
WithNewNode == Append(nodes, XNode(upper_left))

NewNode == Len(nodes) + 1

\* the parents of node n as a set
ParentSet(n) == { nodes[n].parents[i] : i \in 1..Len(nodes[n].parents) }

\* what replace_with(new) on the node old with the result r did to a parent
\* p of old: the slot that held old holds new, the other slot and the rest
\* of p are as before
ParentRewritten(r, p, old, new) ==
  /\ r.N[p].left = (IF nodes[p].left = old THEN new ELSE nodes[p].left)
  /\ r.N[p].right = (IF nodes[p].right = old THEN new ELSE nodes[p].right)
  /\ (nodes[p].left = old) # (nodes[p].right = old)
  /\ r.N[p] = [nodes[p] EXCEPT !.left = r.N[p].left, !.right = r.N[p].right]

\* replace_with on a node with parents
ReplacedBelowParents(r, old, new) ==
  /\ r.ok /\ r.err = "none"
  /\ DOMAIN r.N = DOMAIN WithNewNode
  /\ \A p \in ParentSet(old) : ParentRewritten(r, p, old, new)
  /\ r.N[new] = [WithNewNode[new] EXCEPT !.parents = nodes[old].parents]
  /\ r.N[old] = [nodes[old] EXCEPT !.parents = <<>>]
  /\ \A n \in DOMAIN nodes : (n # old /\ n \notin ParentSet(old)) => r.N[n] = nodes[n]

\* replace_with on a node without parents
ReplacedNothing(r) == ~r.ok /\ r.err = "none" /\ r.N = WithNewNode

\* C29: on every leaf of the search structure that has parents,
\* replace_with(new) puts new into the slot of each parent that held the
\* leaf, leaves the other slot and all other nodes as they are, hands the
\* parent list to new, empties the leaf's parent list and returns true; on
\* the root it changes nothing and returns false, and after an insertion
\* into the empty map, whose only leaf is the root, the root is the new
\* subtree built by the caller
C29_ReplaceWith ==
  /\ \A old \in ReachableLeafs :
       IF nodes[old].parents # <<>>
         THEN ReplacedBelowParents(ReplaceWith(WithNewNode, old, NewNode), old, NewNode)
         ELSE old = root /\ ReplacedNothing(ReplaceWith(WithNewNode, old, NewNode))
  /\ ReplacedNothing(ReplaceWith(WithNewNode, root, NewNode))
  /\ Len(line_segments) >= 1 =>
       /\ root # 1
       /\ nodes[root].kind # "L"
       /\ nodes[root].parents = <<>>
       /\ 1 \notin Reachable
       /\ nodes[1].parents = <<>>

\* a leaf of the search structure has two parents, and the root is no
\* longer the leaf of the empty map
C29_Witness ==
  /\ err = "none"
  /\ root # 1
  /\ \E old \in ReachableLeafs :
       /\ Cardinality(ParentSet(old)) >= 2
       /\ ReplaceWith(WithNewNode, old, NewNode).ok

\* C30: after any sequence of insert calls every x-node and y-node reachable
\* from the root has two children, both non-null nodes of the structure,
\* and every reachable leaf has no children and a non-null trapezoid
C30_NodeShape ==
  \A n \in Reachable :
    IF nodes[n].kind \in {"X", "Y"}
      THEN /\ nodes[n].left # None /\ nodes[n].left \in DOMAIN nodes
           /\ nodes[n].right # None /\ nodes[n].right \in DOMAIN nodes
      ELSE /\ nodes[n].kind = "L"
           /\ nodes[n].left = None /\ nodes[n].right = None
           /\ nodes[n].face # None /\ nodes[n].face \in DOMAIN faces

\* three segments are inserted and the structure has x-nodes, y-nodes and
\* leaves, one of them a y-node whose two children are leaves
C30_Witness ==
  /\ err = "none"
  /\ Len(line_segments) >= 3
  /\ \E x, y, l \in Reachable :
       /\ nodes[x].kind = "X"
       /\ nodes[y].kind = "Y"
       /\ nodes[l].kind = "L"
       /\ nodes[nodes[y].left].kind = "L"
       /\ nodes[nodes[y].right].kind = "L"

\* the point of the trapezoid record f on the side of slot k
SidePointOf(f, k) == IF k \in {UR, LR} THEN f.right_point ELSE f.left_point

FanIncoming == { e \in DOMAIN fan.H : Destination(fan.H, e) = FanCenter }

\* C32: the search for the angular slot around a vertex ends: either with
\* a half-edge arriving at the vertex, found before the search is back at
\* its starting edge, or with the internal error after exactly one loop
\* over the arriving half-edges, none of which has the point in its slot;
\* it never runs on
C32_SlotSearchTerminates ==
  fan_last.called =>
    /\ fan_last.err \in {"none", "Exception"}
    /\ fan_last.err = "none" =>
         /\ fan_last.search_edge \in FanIncoming
         /\ fan_last.steps < Cardinality(FanIncoming)
         /\ Cardinality(FanIncoming) >= 2
              => point_between_edge_and_next(fan.H, fan.point, fan_last.search_edge)
    /\ fan_last.err = "Exception" =>
         /\ fan_last.steps = Cardinality(FanIncoming)
         /\ \A e \in FanIncoming : ~point_between_edge_and_next(fan.H, fan.point, e)

\* the search went once around a vertex with three edges, found no slot
\* for a point on the line of one of them and raised the error
C32_Witness ==
  /\ fan_last.called
  /\ fan_last.err = "Exception"
  /\ fan_last.steps = 3
  /\ Cardinality(FanIncoming) = 3

ProperLinked == { e \in linked : Cardinality(e) = 2 }

IsolatedRequested == { p \in RequestedPoints : \A e \in ProperLinked : p \notin e }

\* C35: the half-edge list holds two records for each undirected edge added
\* and one for each vertex that has no edge; a half-edge is its own twin
\* exactly when its origin has no edge
C35_HalfEdgeCount ==
  /\ Len(d_edges) = 2 * Cardinality(ProperLinked) + Cardinality(IsolatedRequested)
  /\ \A k \in 1..Len(d_edges) :
       (d_half[d_edges[k]].twin = d_edges[k])
         <=> (\E v \in 1..Len(d_vertices) : d_vertices[v].edge = d_edges[k])

\* the endpoints of the segment inserted by the step that coincide with
\* the left point of the first or the right point of the last trapezoid
\* it crossed (both taken before the step)
SharedLeftEnd ==
  IF PointEq(Seg(Last(line_segments')).left,
             faces[last_update'.unvalid[1]].left_point) THEN 1 ELSE 0

SharedRightEnd ==
  IF PointEq(Seg(Last(line_segments')).right,
             faces[Last(last_update'.unvalid)].right_point) THEN 1 ELSE 0

\* C36: an insert that succeeds adds exactly 3 live trapezoids minus one
\* for each endpoint of the new segment that coincides with the left point
\* of the first or the right point of the last crossed trapezoid, however
\* many trapezoids it crosses
C36_TrapezoidGrowth ==
  [][(UpdateStep /\ err' = "none") =>
       /\ last_update'.unvalid # <<>>
       /\ Len(trapezoids') = Len(trapezoids) + 3 - SharedLeftEnd - SharedRightEnd
       /\ Cardinality(Live') = Len(trapezoids')]_vars

\* three insertions of which the last crossed two trapezoids or more and
\* shared an endpoint: two of the six endpoints were shared in all, so
\* the map has 1 + 3 + 3 + 3 - 2 trapezoids
C36_Witness ==
  /\ err = "none"
  /\ Len(line_segments) = 3
  /\ Len(last_update.unvalid) >= 2
  /\ \/ \E i \in 1..2 : PointEq(Seg(line_segments[3]).left, Seg(line_segments[i]).left)
     \/ \E i \in 1..2 : PointEq(Seg(line_segments[3]).right, Seg(line_segments[i]).right)
  /\ Len(trapezoids) = 8

\* the nodes below n: its children and all that they lead to
Descendants(n) == ReachFrom({ nodes[n].left, nodes[n].right } \ { None }, {})

\* C37: no node of the search structure is its own descendant, and every
\* search from the root, for a query point as for the left endpoint of a
\* segment that can be inserted next, ends at a leaf after at most as many
\* steps as there are nodes
C37_Acyclic ==
  /\ \A n \in DOMAIN nodes : n \notin Descendants(n)
  /\ \A q \in QueryPoints :
       /\ Search(nodes, root, q, None, Len(nodes) + 1).err = "none"
       /\ nodes[faces[Search(nodes, root, q, None, Len(nodes) + 1).face].search_leaf].kind = "L"
  /\ \A s \in PoolIds :
       (\A i \in 1..Len(line_segments) : Compatible(s, line_segments[i]))
         => Search(nodes, root, Seg(s).left, s, Len(nodes) + 1).err = "none"

\* three insertions have been made; a node has two parents (the structure
\* is not a tree) and a search passes five nodes or more on its way to a
\* leaf
C37_Witness ==
  /\ Len(line_segments) = 3
  /\ \E n \in Reachable : Len(nodes[n].parents) >= 2
  /\ \E q \in QueryPoints :
       /\ Search(nodes, root, q, None, Len(nodes) + 1).err = "none"
       /\ Cardinality(SearchVisits(nodes, root, q, None, Len(nodes) + 1)) >= 5

\* the step is a PointLocation.clear call: the only one that makes two
\* DoublyConnectedEdgeList outer faces
ClearStep == dcel_count' = dcel_count + 2

\* the decomposition and the search structure after the step are those of
\* a new facade: one trapezoid spanning the box without neighbors, whose
\* leaf is the root, no inserted segment
SeedAfterStep ==
  /\ Len(trapezoids') = 1
  /\ faces'[trapezoids'[1]].top_line_segment = TopSeg
  /\ faces'[trapezoids'[1]].bottom_line_segment = BottomSeg
  /\ faces'[trapezoids'[1]].left_point = upper_left
  /\ faces'[trapezoids'[1]].right_point = upper_right
  /\ faces'[trapezoids'[1]].neighbors = << None, None, None, None >>
  /\ nodes'[root'].kind = "L"
  /\ nodes'[root'].parents = <<>>
  /\ nodes'[root'].face = trapezoids'[1]
  /\ faces'[trapezoids'[1]].search_leaf = root'
  /\ line_segments' = <<>>

\* the facade's DCEL after the step: no vertex, no half-edge, the outer
\* face as its only face
DcelEmptyAfterStep ==
  /\ d_vertices' = <<>>
  /\ d_edges' = <<>>
  /\ d_faces' = << outer_face' >>
  /\ outer_face'.is_outer

RECURSIVE Root(_, _, _)
Root(P, x, depth) ==
  IF depth = 0 THEN None
  ELSE IF P[x] = x THEN x
  ELSE Root(P, P[x], depth - 1)

\* P and Q have the same elements and put the same pairs under one root
SamePartition(P, Q) ==
  /\ DOMAIN P = DOMAIN Q
  /\ \A x \in DOMAIN P : \A y \in DOMAIN P :
       (Root(P, x, Depth) = Root(P, y, Depth)) <=> (Root(Q, x, Depth) = Root(Q, y, Depth))

\* C39: the known elements are those handed to make_set or union; for two
\* known elements in_same_set answers true exactly when the closure of the
\* union calls made so far connects them; find ends without an error at a
\* representative that is its own parent, the end of the parent chain, and
\* the parent function it leaves has the same partition as before
C39_Partition ==
  /\ DOMAIN ds_parent = UNION ds_classes
  /\ DOMAIN ds_rank = DOMAIN ds_parent
  /\ \A x \in DOMAIN ds_parent : \A y \in DOMAIN ds_parent :
       /\ in_same_set(ds_parent, x, y).err = "none"
       /\ in_same_set(ds_parent, x, y).ret = (\E c \in ds_classes : x \in c /\ y \in c)
       /\ SamePartition(ds_parent, in_same_set(ds_parent, x, y).P)
  /\ \A x \in DOMAIN ds_parent :
       /\ find(ds_parent, x, Depth).err = "none"
       /\ find(ds_parent, x, Depth).rep = Root(ds_parent, x, Depth)
       /\ find(ds_parent, x, Depth).P[find(ds_parent, x, Depth).rep]
            = find(ds_parent, x, Depth).rep
       /\ SamePartition(ds_parent, find(ds_parent, x, Depth).P)

\* the last call was a find; all elements are known and in one class, whose
\* representative has rank 2, so the tree had a chain of two links, and
\* every other element now hangs directly below the representative: the
\* chain has been compressed
C39_Witness ==
  /\ ds_last.op = "find"
  /\ ds_last.err = "none"
  /\ DOMAIN ds_parent = Elems
  /\ ds_classes = { Elems }
  /\ ds_rank[ds_last.ret] = 2
  /\ \A x \in Elems : ds_parent[x] = ds_last.ret

\* the leaves of the component tree
RECURSIVE LeavesBelow(_)
LeavesBelow(n) ==
  IF is_leaf(ct_nodes, n) THEN { n }
  ELSE LeavesBelow(ct_nodes[n].left) \cup LeavesBelow(ct_nodes[n].right)

TreeLeaves == LeavesBelow(ct_root)

ComponentLeaves == { n \in TreeLeaves : ct_nodes[n].has }

InsertedDisks == DiskSet(ct_inserted)

\* the inserted disks that a chain of intersecting inserted disks joins
\* with a disk of the set c
RECURSIVE Cluster(_)
Cluster(c) ==
  IF \E d \in InsertedDisks \ c : \E e \in c : Intersects(d, e)
    THEN Cluster(c \cup { d \in InsertedDisks : \E e \in c : Intersects(d, e) })
    ELSE c

\* the connected components of the intersection graph of the inserted
\* disks
DiskComponents == { Cluster({ d }) : d \in InsertedDisks }

\* C40: the components of the leaves are exactly the connected components
\* of the intersection graph of the inserted disks, every inserted disk is
\* at one place of one component, and every leaf without a component is
\* in the queue of free leaves
C40_Components ==
  ct_err = "none" =>
    /\ { DiskSet(ct_nodes[n].component) : n \in ComponentLeaves } = DiskComponents
    /\ \A d \in InsertedDisks :
         Cardinality({ p \in { << n, i >> : n \in ComponentLeaves, i \in 1..MaxDisks } :
                         /\ p[2] <= Len(ct_nodes[p[1]].component)
                         /\ ct_nodes[p[1]].component[p[2]] = d }) = 1
    /\ \A n \in TreeLeaves :
         ~ct_nodes[n].has => \E i \in 1..Len(ct_leafQueue) : ct_leafQueue[i] = n
====
